---------------------------- MODULE Spec2Model ----------------------------
(***************************************************************************)
(* Model of the Angular 5 -> 20 migration engine.                          *)
(*                                                                         *)
(*   ProjectAnalyzer            discovery and classification of files      *)
(*   Angular5Analyzer           pattern detection (issues)                 *)
(*   ModernizationTransformer   ordered rewrite rules (records)            *)
(*   BackendAgnosticMigrationEngine   the coordinator (migrateProject)     *)
(*                                                                         *)
(* File contents and paths are sequences of lexical tokens.  A token is a  *)
(* piece of text that the regular expressions of the source either match   *)
(* as a whole or not at all; the literals the source looks for with        *)
(* String.includes never straddle two tokens.  The regular expressions are *)
(* translated to searches over token sequences.                            *)
(***************************************************************************)
EXTENDS Integers, Sequences, FiniteSets, TLC

\* ------------------------------------------------------------------ bounds
MaxFiles == 3      \* files found by one discovery
MaxCtors == 2      \* constructors in one TypeScript file
MaxDeps  == 2      \* entries of one dependency section of a manifest
MaxTpl   == 2      \* directive fragments in one template
MaxDots == 2      \* dotted parts in one file name

\* ------------------------------------------------------- sequence helpers
NL == "\n"

RECURSIVE FirstFrom(_, _, _)
\* least index >= i of a token of c that lies in S, 0 when there is none
FirstFrom(c, i, S) ==
  IF i > Len(c) THEN 0
  ELSE IF c[i] \in S THEN i
  ELSE FirstFrom(c, i + 1, S)

RECURSIVE SkipWs(_, _)
\* \s* : least index >= i of a token that is not white space (Len(c)+1 at end)
SkipWs(c, i) ==
  IF i > Len(c) THEN i
  ELSE IF c[i] = NL THEN SkipWs(c, i + 1)
  ELSE i

\* c with the tokens i..j replaced by the sequence r
Splice(c, i, j, r) == SubSeq(c, 1, i - 1) \o r \o SubSeq(c, j + 1, Len(c))

\* pat occurs in c as a contiguous run of tokens (the empty pat always does)
IsSubSeq(pat, c) ==
  \E i \in 0..(Len(c) - Len(pat)) :
    \A k \in 1..Len(pat) : c[i + k] = pat[k]

RECURSIVE Trim(_)
\* String.prototype.trim
Trim(c) ==
  IF c = <<>> THEN c
  ELSE IF Head(c) = NL THEN Trim(Tail(c))
  ELSE IF c[Len(c)] = NL THEN Trim(SubSeq(c, 1, Len(c) - 1))
  ELSE c

RECURSIVE Flatten(_)
Flatten(ss) == IF ss = <<>> THEN <<>> ELSE Head(ss) \o Flatten(Tail(ss))

RECURSIVE SumSeq(_)
SumSeq(s) == IF s = <<>> THEN 0 ELSE Head(s) + SumSeq(Tail(s))

RECURSIVE SelectIdx(_, _, _)
\* the indices i..Len(c) whose token lies in S, in increasing order
SelectIdx(c, i, S) ==
  IF i > Len(c) THEN <<>>
  ELSE IF c[i] \in S THEN <<i>> \o SelectIdx(c, i + 1, S)
  ELSE SelectIdx(c, i + 1, S)


\* --------------------------------------------------------------- literals
\* String.includes(lit): the tokens of the alphabets that contain lit
TokensWith(lit) ==
  CASE lit = "@Component"       -> {"@Component("}
    [] lit = "standalone: true" -> {"standalone: true"}
    [] lit = "@Injectable"      -> {"@Injectable("}
    [] lit = "providedIn: 'root'" -> {"providedIn: 'root'"}
    [] lit = "private" -> {"private svc: MyService", "private svc",
                           "private svc = inject(MyService",
                           "private api = inject(Api",
                           "private n = inject(number"}
    [] lit = "public"  -> {"public api: Api"}
    [] lit = "import { inject }" -> {"import { inject } from '@angular/core';"}
    [] lit = "FormGroup"   -> {"FormGroup(", "FormGroup<MyFormInterface>("}
    [] lit = "FormGroup<"  -> {"FormGroup<MyFormInterface>("}
    [] lit = "FormControl" -> {"FormControl(", "FormControl<string>("}
    [] lit = "@NgModule"   -> {"@NgModule("}
    [] lit = "HttpModule"       -> {"HttpModule"}
    [] lit = "HttpClientModule" -> {"HttpClientModule"}
    [] lit = "FormsModule"      -> {"FormsModule", "ReactiveFormsModule"}
    [] lit = "from '@angular/http'"    -> {"from '@angular/http'"}
    [] lit = "from \"@angular/http\""  -> {"from \"@angular/http\""}
    [] lit = "from 'rxjs/operators'"   -> {"from 'rxjs/operators'"}
    [] lit = "from \"rxjs/operators\"" -> {"from \"rxjs/operators\""}
    [] lit = "*ngIf"     -> {"*ngIf"}
    [] lit = "*ngFor"    -> {"*ngFor"}
    [] lit = "*ngSwitch" -> {"*ngSwitch"}

includes(content, lit) == FirstFrom(content, 1, TokensWith(lit)) # 0

\* ------------------------------------------------- transformation records
NoRecord == <<>>

\* mutant: a record is created as already applied
Record_applied(type, before, after) ==
  << [type |-> type, before |-> before, after |-> after, status |-> "applied"] >>

Record(type, before, after) ==
  << [type |-> type, before |-> before, after |-> after, status |-> "pending"] >>

\* the content a rule hands to the next one: `content = t.after` when it fired
Next_content(rec, content) == IF rec = NoRecord THEN content ELSE rec[1].after

\* ------------------------------------------------- convertToStandalone
RECURSIVE ComponentMatchFrom(_, _)
\* first match of /@Component\s*\(\s*\{([^}]+)\}\s*\)/ at or after token i:
\* <<start, open brace, close brace, end>>, or <<0,0,0,0>>
ComponentMatchFrom(c, i) ==
  LET s == FirstFrom(c, i, {"@Component("}) IN
  IF s = 0 THEN <<0, 0, 0, 0>>
  ELSE
    LET o  == SkipWs(c, s + 1)
        cl == IF o <= Len(c) /\ c[o] = "{" THEN FirstFrom(c, o + 1, {"}"}) ELSE 0
        e  == IF cl = 0 THEN 0 ELSE SkipWs(c, cl + 1)
    IN IF cl > o + 1 /\ e <= Len(c) /\ c[e] = ")"
       THEN <<s, o, cl, e>>
       ELSE ComponentMatchFrom(c, s + 1)

convertToStandalone(content) ==
  LET m == ComponentMatchFrom(content, 1) IN
  IF m[1] = 0 THEN NoRecord
  ELSE
    LET componentConfig == SubSeq(content, m[2] + 1, m[3] - 1) IN
    IF includes(componentConfig, "standalone: true") THEN NoRecord
    ELSE
      LET newConfig == <<"@Component(", "{", NL, "standalone: true", NL,
                         "imports: [CommonModule]", NL>>
                       \o Trim(componentConfig) \o <<NL, "}", ")">>
      IN Record("convert_to_standalone", content,
                Splice(content, m[1], m[4], newConfig))

\* ------------------------------------------------------- migrateToInject
RECURSIVE CtorMatchFrom(_, _)
\* first match of /constructor\s*\(\s*([^)]+)\s*\)/ at or after token i:
\* <<start, end>> (the parameters are the tokens strictly between), or <<0,0>>
CtorMatchFrom(c, i) ==
  LET s == FirstFrom(c, i, {"constructor("}) IN
  IF s = 0 THEN <<0, 0>>
  ELSE
    LET e == FirstFrom(c, s + 1, {")"}) IN
    IF e > s + 1 THEN <<s, e>> ELSE CtorMatchFrom(c, s + 1)

\* /(\w+):\s*(\w+)/ on one parameter: the inject() declaration it yields
\* (`private <name> = inject(<Type>`), or "" when the parameter has no `name: Type`
InjectStatement(param) ==
  CASE param = "private svc: MyService" -> "private svc = inject(MyService"
    [] param = "public api: Api"        -> "private api = inject(Api"
    [] param = "n: number"              -> "private n = inject(number"
    [] OTHER -> ""

RECURSIVE InjectStatements(_)
InjectStatements(params) ==
  IF params = <<>> THEN <<>>
  ELSE (IF InjectStatement(Head(params)) = "" THEN <<>>
        ELSE <<InjectStatement(Head(params)), ")", ";", NL>>)
       \o InjectStatements(Tail(params))

\* tokens matched by /import\s*\{([^}]+)\}\s*from\s*['"]@angular\/core['"]/
BracedCoreImports ==
  {"import { Component } from '@angular/core'",
   "import { Component, inject } from '@angular/core'",
   "import { Component, inject, inject } from '@angular/core'",
   "import { inject } from '@angular/core';"}

\* tokens matched by /import.*from.*['"]@angular\/core['"]/ and not by the above
StarCoreImports == {"import * as ng from '@angular/core'"}

\* `import { ${imports}, inject } from '@angular/core'`
WithInject(tok) ==
  CASE tok = "import { Component } from '@angular/core'"
         -> "import { Component, inject } from '@angular/core'"
    [] tok = "import { Component, inject } from '@angular/core'"
         -> "import { Component, inject, inject } from '@angular/core'"

\* greedy .* : the last token of S on the line of token i, from i on
LastOnLine(c, i, S) ==
  LET stop == FirstFrom(c, i + 1, {NL})
      lim  == IF stop = 0 THEN Len(c) ELSE stop - 1
      hits == SelectIdx(SubSeq(c, 1, lim), i, S)
  IN IF hits = <<>> THEN i ELSE hits[Len(hits)]

addInjectImport(c) ==
  IF includes(c, "import { inject }") THEN c
  ELSE
    LET b == FirstFrom(c, 1, BracedCoreImports) IN
    IF b # 0 THEN Splice(c, b, b, <<WithInject(c[b])>>)
    ELSE
      LET f == FirstFrom(c, 1, StarCoreImports) IN
      IF f = 0 THEN c
      ELSE LET e == LastOnLine(c, f, StarCoreImports)
           IN Splice(c, e + 1, e, <<NL, "import { inject } from '@angular/core';">>)

\* tokens matched by /export class \w+\s*\{/
ExportClassHeads == {"export class X {"}

addInjectDeclarations(c, injectStatements) ==
  LET k == FirstFrom(c, 1, ExportClassHeads) IN
  IF k = 0 THEN c
  ELSE Splice(c, k + 1, k, <<NL>> \o injectStatements)

migrateToInject(content) ==
  LET m == CtorMatchFrom(content, 1) IN
  IF m[1] = 0 THEN NoRecord
  ELSE
    LET injectionParams == SubSeq(content, m[1] + 1, m[2] - 1) IN
    IF ~includes(injectionParams, "private") /\ ~includes(injectionParams, "public")
    THEN NoRecord
    ELSE IF InjectStatements(injectionParams) = <<>> THEN NoRecord
    ELSE
      LET replaced == Splice(content, m[1], m[2],
                             <<"constructor(", ")", "{", NL, "}">>)
      IN Record("replace_inject", content,
                addInjectDeclarations(addInjectImport(replaced),
                                      InjectStatements(injectionParams)))

\* --------------------------------------------------- migrateToTypedForms
RECURSIVE ReplaceCalls(_, _, _)
\* content.replace(/<head>\s*\(\s*\)/g, <typed>()): head is the token `Name(`
ReplaceCalls(c, head, typed) ==
  IF c = <<>> THEN <<>>
  ELSE IF Head(c) = head
    THEN LET e == SkipWs(c, 2) IN
         IF e <= Len(c) /\ c[e] = ")"
         THEN <<typed, ")">> \o ReplaceCalls(SubSeq(c, e + 1, Len(c)), head, typed)
         ELSE <<Head(c)>> \o ReplaceCalls(Tail(c), head, typed)
  ELSE <<Head(c)>> \o ReplaceCalls(Tail(c), head, typed)

migrateToTypedForms(content) ==
  IF ~includes(content, "FormGroup") /\ ~includes(content, "FormControl")
  THEN NoRecord
  ELSE
    LET newContent ==
          ReplaceCalls(ReplaceCalls(content, "FormGroup(", "FormGroup<MyFormInterface>("),
                       "FormControl(", "FormControl<string>(")
    IN IF newContent = content THEN NoRecord
       ELSE Record("update_typed_forms", content, newContent)

\* ----------------------------------------------------------- updateImports
ReplaceToken(c, from, to) == [i \in 1..Len(c) |-> IF c[i] = from THEN to ELSE c[i]]

\* one entry of importReplacements: both quote styles, each guarded by includes
ReplaceImport(c, from1, to1, from2, to2) ==
  ReplaceToken(ReplaceToken(c, from1, to1), from2, to2)

updateImports(content) ==
  LET newContent ==
        ReplaceImport(
          ReplaceImport(content,
                        "from '@angular/http'", "from '@angular/common/http'",
                        "from \"@angular/http\"", "from \"@angular/common/http\""),
          "from 'rxjs/operators'", "from 'rxjs'",
          "from \"rxjs/operators\"", "from \"rxjs\"")
      hasChanges ==
        \/ includes(content, "from '@angular/http'")
        \/ includes(content, "from \"@angular/http\"")
        \/ includes(content, "from 'rxjs/operators'")
        \/ includes(content, "from \"rxjs/operators\"")
  IN IF ~hasChanges THEN NoRecord
     ELSE Record("update_imports", content, newContent)

\* ----------------------------------------------- configureStandaloneService
RECURSIVE InjectableMatchFrom(_, _)
\* first match of /@Injectable\s*\(\s*\{([^}]*)\}\s*\)/ at or after token i
InjectableMatchFrom(c, i) ==
  LET s == FirstFrom(c, i, {"@Injectable("}) IN
  IF s = 0 THEN <<0, 0, 0, 0>>
  ELSE
    LET o  == SkipWs(c, s + 1)
        cl == IF o <= Len(c) /\ c[o] = "{" THEN FirstFrom(c, o + 1, {"}"}) ELSE 0
        e  == IF cl = 0 THEN 0 ELSE SkipWs(c, cl + 1)
    IN IF cl # 0 /\ e <= Len(c) /\ c[e] = ")"
       THEN <<s, o, cl, e>>
       ELSE InjectableMatchFrom(c, s + 1)

configureStandaloneService(content) ==
  LET m == InjectableMatchFrom(content, 1) IN
  IF m[1] = 0 THEN NoRecord
  ELSE
    LET config == Trim(SubSeq(content, m[2] + 1, m[3] - 1)) IN
    IF includes(config, "providedIn: 'root'") THEN NoRecord
    ELSE
      LET newConfig ==
            IF config # <<>>
            THEN <<"@Injectable(", "{", NL, "providedIn: 'root'", NL>>
                 \o config \o <<NL, "}", ")">>
            ELSE <<"@Injectable(", "{", NL, "providedIn: 'root'", NL, "}", ")">>
      IN Record("convert_to_standalone", content,
                Splice(content, m[1], m[4], newConfig))


\* ------------------------------------------------------ migrateControlFlow
DQ == "\""

RECURSIVE RewriteNgIf(_)
\* content.replace(/\*ngIf="([^"]+)"/g, '@if ($1) {')
RewriteNgIf(c) ==
  IF c = <<>> THEN <<>>
  ELSE
    LET q == FirstFrom(c, 4, {DQ}) IN
    IF Len(c) >= 5 /\ c[1] = "*ngIf" /\ c[2] = "=" /\ c[3] = DQ /\ q > 4
    THEN <<"@if (">> \o SubSeq(c, 4, q - 1) \o <<") {">>
         \o RewriteNgIf(SubSeq(c, q + 1, Len(c)))
    ELSE <<Head(c)>> \o RewriteNgIf(Tail(c))

\* tokens that contain a semicolon
SemiTokens == {"; let i = index", "; trackBy: f", "; track x", "; let i = $index"}

\* `let (\w+) of ` : the loop variable's `x of ` and `; track x`
ForHeads == {"let x of "}

RECURSIVE RewriteNgForIndex(_)
\* content.replace(/\*ngFor="let (\w+) of ([^;]+); let (\w+) = index"/g,
\*                 '@for ($1 of $2; track $1; let $3 = $index) {')
RewriteNgForIndex(c) ==
  IF c = <<>> THEN <<>>
  ELSE
    LET semi == FirstFrom(c, 5, SemiTokens) IN
    IF /\ Len(c) >= 7 /\ c[1] = "*ngFor" /\ c[2] = "=" /\ c[3] = DQ
       /\ c[4] \in ForHeads
       /\ semi > 5 /\ c[semi] = "; let i = index"
       /\ semi < Len(c) /\ c[semi + 1] = DQ
    THEN <<"@for (", "x of ">> \o SubSeq(c, 5, semi - 1)
         \o <<"; track x", "; let i = $index", ") {">>
         \o RewriteNgForIndex(SubSeq(c, semi + 2, Len(c)))
    ELSE <<Head(c)>> \o RewriteNgForIndex(Tail(c))

RECURSIVE RewriteNgFor(_)
\* content.replace(/\*ngFor="let (\w+) of ([^;]+)"/g, '@for ($1 of $2; track $1) {')
\* [^;]+ is greedy: it runs to the last double quote before the next semicolon
RewriteNgFor(c) ==
  IF c = <<>> THEN <<>>
  ELSE
    LET semi == FirstFrom(c, 5, SemiTokens)
        lim  == IF semi = 0 THEN Len(c) ELSE semi - 1
        qs   == SelectIdx(SubSeq(c, 1, lim), 6, {DQ})
        q    == IF qs = <<>> THEN 0 ELSE qs[Len(qs)]
    IN
    IF /\ Len(c) >= 6 /\ c[1] = "*ngFor" /\ c[2] = "=" /\ c[3] = DQ
       /\ c[4] \in ForHeads /\ q # 0
    THEN <<"@for (", "x of ">> \o SubSeq(c, 5, q - 1) \o <<"; track x", ") {">>
         \o RewriteNgFor(SubSeq(c, q + 1, Len(c)))
    ELSE <<Head(c)>> \o RewriteNgFor(Tail(c))

migrateControlFlow(content) ==
  LET afterIf ==
        IF includes(content, "*ngIf")
        THEN ReplaceToken(RewriteNgIf(content), "</ng-container>", "}")
        ELSE content
      afterFor ==
        IF includes(afterIf, "*ngFor")
        THEN RewriteNgFor(RewriteNgForIndex(afterIf))
        ELSE afterIf
      hasChanges == includes(content, "*ngIf") \/ includes(afterIf, "*ngFor")
  IN IF ~hasChanges THEN NoRecord
     ELSE Record("update_control_flow", content, afterFor)

\* ------------------------------------------------------------ the manifest
\* A manifest is the token sequence
\*   { dependencies { name version ... } devDependencies { name version ... } }
\* with white space anywhere.  JSON.parse gives the members in document order.
SectionKeys == {"dependencies", "devDependencies"}

RECURSIVE NoWs(_)
NoWs(c) ==
  IF c = <<>> THEN <<>>
  ELSE IF Head(c) = NL THEN NoWs(Tail(c))
  ELSE <<Head(c)>> \o NoWs(Tail(c))

NotJson == [ok |-> FALSE, members |-> <<>>]

\* object[key] = value: an existing key keeps its place, a new one is appended
SetEntry(entries, name, version) ==
  IF \E i \in 1..Len(entries) : entries[i][1] = name
  THEN [i \in 1..Len(entries) |->
          IF entries[i][1] = name THEN <<name, version>> ELSE entries[i]]
  ELSE Append(entries, <<name, version>>)

RECURSIVE ParseEntries(_, _)
\* the name/version pairs of c up to its first "}", and what follows that brace
ParseEntries(c, acc) ==
  IF c = <<>> THEN [ok |-> FALSE, entries |-> <<>>, rest |-> <<>>]
  ELSE IF Head(c) = "}" THEN [ok |-> TRUE, entries |-> acc, rest |-> Tail(c)]
  ELSE IF Len(c) < 2 \/ Head(c) \in {"{", "<<<"} \/ c[2] \in {"{", "}", "<<<"}
    THEN [ok |-> FALSE, entries |-> <<>>, rest |-> <<>>]
  ELSE ParseEntries(SubSeq(c, 3, Len(c)), SetEntry(acc, c[1], c[2]))

RECURSIVE ParseMembers(_, _)
ParseMembers(c, acc) ==
  IF c = <<"}">> THEN [ok |-> TRUE, members |-> acc]
  ELSE IF Len(c) < 3 \/ c[1] \notin SectionKeys \/ c[2] # "{" THEN NotJson
  ELSE
    LET p == ParseEntries(SubSeq(c, 3, Len(c)), <<>>) IN
    IF ~p.ok THEN NotJson
    ELSE ParseMembers(p.rest, Append(acc, [key |-> c[1], entries |-> p.entries]))

\* JSON.parse: [ok |-> FALSE] stands for the SyntaxError it throws
JSONparse(content) ==
  LET c == NoWs(content) IN
  IF c = <<>> \/ Head(c) # "{" THEN NotJson
  ELSE ParseMembers(Tail(c), <<>>)

RECURSIVE StringifyEntries(_)
StringifyEntries(entries) ==
  IF entries = <<>> THEN <<>>
  ELSE <<Head(entries)[1], Head(entries)[2], NL>> \o StringifyEntries(Tail(entries))

RECURSIVE StringifyMembers(_)
StringifyMembers(members) ==
  IF members = <<>> THEN <<>>
  ELSE <<Head(members).key, "{">>
       \o (IF Head(members).entries = <<>> THEN <<>>
           ELSE <<NL>> \o StringifyEntries(Head(members).entries))
       \o <<"}", NL>> \o StringifyMembers(Tail(members))

\* JSON.stringify(value, null, 2): one member per line, an empty object as {}
JSONstringify(members) ==
  IF members = <<>> THEN <<"{", "}">>
  ELSE <<"{", NL>> \o StringifyMembers(members) \o <<"}">>

\* the keys of angularDependencies, in the order of the object literal
AngularDependencyNames ==
  <<"@angular/core", "@angular/common", "@angular/compiler",
    "@angular/platform-browser", "@angular/platform-browser-dynamic",
    "@angular/router", "@angular/forms", "@angular/cli",
    "@angular-devkit/build-angular", "typescript", "rxjs", "zone.js">>

angularDependencies(dep) ==
  CASE dep = "typescript" -> "^5.0.0"
    [] dep = "rxjs"       -> "^7.8.0"
    [] dep = "zone.js"    -> "^0.14.0"
    [] OTHER              -> "^20.0.0"

obsoleteDeps == <<"@angular/http", "rxjs-compat">>

\* entries[dep], "" standing for undefined as well as for the empty string
Lookup(entries, dep) ==
  IF \E i \in 1..Len(entries) : entries[i][1] = dep
  THEN (CHOOSE e \in {entries[i] : i \in 1..Len(entries)} : e[1] = dep)[2]
  ELSE ""

\* JavaScript truthiness of a version string
Truthy(version) == version # ""

\* if (section[dep]) section[dep] = target
UpdateEntries(entries) ==
  [i \in 1..Len(entries) |->
     IF /\ \E k \in 1..Len(AngularDependencyNames) :
             AngularDependencyNames[k] = entries[i][1]
        /\ Truthy(entries[i][2])
     THEN <<entries[i][1], angularDependencies(entries[i][1])>>
     ELSE entries[i]]

RECURSIVE DeleteObsolete(_)
\* if (section[dep]) delete section[dep]
DeleteObsolete(entries) ==
  IF entries = <<>> THEN <<>>
  ELSE (IF /\ \E k \in 1..Len(obsoleteDeps) : obsoleteDeps[k] = Head(entries)[1]
           /\ Truthy(Head(entries)[2])
        THEN <<>> ELSE <<Head(entries)>>)
       \o DeleteObsolete(Tail(entries))

updatedPackageJson(members) ==
  [i \in 1..Len(members) |->
     [key |-> members[i].key,
      entries |-> DeleteObsolete(UpdateEntries(members[i].entries))]]

transformPackageJson(content) ==
  LET packageJson == JSONparse(content) IN
  IF ~packageJson.ok THEN NoRecord
  ELSE Record("update_dependencies", content,
              JSONstringify(updatedPackageJson(packageJson.members)))


\* ------------------------------------------------------------ the pipelines
\* Each pipeline is the sequence of its rules' results (NoRecord or one record),
\* every rule reading the content the previous rules left.
\* mutant: the inject rule reads the file's original content
transformComponentSteps_unchained(content) ==
  LET r1 == IF includes(content, "@Component") /\ ~includes(content, "standalone: true")
            THEN convertToStandalone(content) ELSE NoRecord
      r2 == migrateToInject(content)
      c2 == Next_content(r2, content)
      r3 == migrateToTypedForms(c2)
      c3 == Next_content(r3, c2)
      r4 == updateImports(c3)
  IN <<r1, r2, r3, r4>>

transformComponentSteps(content) ==
  LET r1 == IF includes(content, "@Component") /\ ~includes(content, "standalone: true")
            THEN convertToStandalone(content) ELSE NoRecord
      c1 == Next_content(r1, content)
      r2 == migrateToInject(c1)
      c2 == Next_content(r2, c1)
      r3 == migrateToTypedForms(c2)
      c3 == Next_content(r3, c2)
      r4 == updateImports(c3)
  IN <<r1, r2, r3, r4>>

transformServiceSteps(content) ==
  LET r1 == migrateToInject(content)
      c1 == Next_content(r1, content)
      r2 == IF includes(c1, "@Injectable") /\ ~includes(c1, "providedIn: 'root'")
            THEN configureStandaloneService(c1) ELSE NoRecord
  IN <<r1, r2>>

\* mutant: a record only for a content that declares an NgModule
transformModule_onlyNgModule(content) ==
  IF includes(content, "@NgModule") THEN Record("remove_ngmodule", content, content)
  ELSE NoRecord

transformModule(content) == Record("remove_ngmodule", content, content)

transformTemplate(content) == migrateControlFlow(content)

PipelineTypes == {"component", "service", "module", "html", "package.json"}

\* the rules that transformFile runs for a file, in order, with their results
Steps(file) ==
  CASE file.type = "component"    -> transformComponentSteps(file.content)
    [] file.type = "service"      -> transformServiceSteps(file.content)
    [] file.type = "module"       -> <<transformModule(file.content)>>
    [] file.type = "html"         -> <<transformTemplate(file.content)>>
    [] file.type = "package.json" -> <<transformPackageJson(file.content)>>
    [] OTHER -> <<>>

\* the rules of a file's pipeline whose exception reaches transformFile's catch
\* (transformPackageJson catches its own)
ThrowPoints(file) ==
  IF file.type = "package.json" THEN {} ELSE 1..Len(Steps(file))

\* the records pushed before rule `fault` threw
ProducedBefore(file, fault) == Flatten(SubSeq(Steps(file), 1, fault - 1))

\* mutant: the catch returns the records pushed before the exception
transformFile_partial(file, fault) ==
  IF fault = 0 THEN Flatten(Steps(file))
  ELSE ProducedBefore(file, fault)

\* transformFile; fault = 0: no rule throws, fault = j: rule j of the pipeline throws
transformFile(file, fault) ==
  IF fault = 0 THEN Flatten(Steps(file))
  ELSE <<>>


\* ------------------------------------------------------------ the analyzer
\* An issue; line 0 and code <<>> stand for an absent `line` and `code`,
\* `about` is what the message names.
Issue(type, severity, line, code, about) ==
  [type |-> type, severity |-> severity, line |-> line, code |-> code, about |-> about]

\* mutant: the whole content is split, not the part before the match
getLineNumber_whole(content, index) ==
  Len(SelectIdx(content, 1, {NL})) + 1

\* content.substring(0, index).split('\n').length; index is the token's position
getLineNumber(content, index) ==
  Len(SelectIdx(SubSeq(content, 1, index - 1), 1, {NL})) + 1

RECURSIVE CtorIssues(_, _, _)
\* the exec loop over /constructor\s*\(\s*([^)]+)\s*\)/g from token i on
CtorIssues(content, i, withCode) ==
  LET m == CtorMatchFrom(content, i) IN
  IF m[1] = 0 THEN <<>>
  ELSE
    LET injectionParams == SubSeq(content, m[1] + 1, m[2] - 1) IN
    (IF includes(injectionParams, "private") \/ includes(injectionParams, "public")
     THEN <<Issue("inject_migration", "suggestion", getLineNumber(content, m[1]),
                  IF withCode THEN SubSeq(content, m[1], m[2]) ELSE <<>>, "inject()")>>
     ELSE <<>>)
    \o CtorIssues(content, m[2] + 1, withCode)

RECURSIVE FormGroupIssues(_, _)
\* the exec loop over /FormGroup\s*\(\s*\)/g from token i on
FormGroupIssues(content, i) ==
  LET s == FirstFrom(content, i, {"FormGroup("}) IN
  IF s = 0 THEN <<>>
  ELSE
    LET e == SkipWs(content, s + 1) IN
    IF e <= Len(content) /\ content[e] = ")"
    THEN <<Issue("typed_forms_migration", "warning", getLineNumber(content, s),
                 SubSeq(content, s, e), "FormGroup")>>
         \o FormGroupIssues(content, e + 1)
    ELSE FormGroupIssues(content, s + 1)

analyzeComponent(content) ==
  CtorIssues(content, 1, TRUE)
  \o (IF includes(content, "@NgModule")
      THEN <<Issue("standalone_migration", "info", 0, <<>>, "component")>> ELSE <<>>)
  \o FormGroupIssues(content, 1)

analyzeService(content) ==
  CtorIssues(content, 1, FALSE)
  \o (IF ~includes(content, "providedIn: 'root'")
      THEN <<Issue("standalone_migration", "info", 0, <<>>, "service")>> ELSE <<>>)

\* one issue for every name of `names` that the content includes
RECURSIVE IncludeIssues(_, _, _, _)
IncludeIssues(content, names, type, severity) ==
  IF names = <<>> THEN <<>>
  ELSE (IF \E k \in 1..Len(Head(names)) : includes(content, Head(names)[k])
        THEN <<Issue(type, severity, 0, <<>>, Head(names)[1])>> ELSE <<>>)
       \o IncludeIssues(content, Tail(names), type, severity)

analyzeModule(content) ==
  (IF includes(content, "@NgModule")
   THEN <<Issue("standalone_migration", "warning", 0, <<>>, "NgModule")>> ELSE <<>>)
  \o IncludeIssues(content, << <<"HttpModule">>, <<"HttpClientModule">>, <<"FormsModule">> >>,
                   "deprecated_api", "warning")

RECURSIVE TokenIssues(_, _, _, _, _, _)
\* the exec loop of a pattern that matches single tokens, from token i on
TokenIssues(content, i, S, type, severity, withCode) ==
  LET s == FirstFrom(content, i, S) IN
  IF s = 0 THEN <<>>
  ELSE <<Issue(type, severity, getLineNumber(content, s),
               IF withCode THEN <<content[s]>> ELSE <<>>, content[s])>>
       \o TokenIssues(content, s + 1, S, type, severity, withCode)

\* mutant: the *ngFor pattern is missing from controlFlowPatterns
analyzeTemplate_withoutFor(content) ==
  TokenIssues(content, 1, {"*ngIf"}, "control_flow_migration", "suggestion", TRUE)
  \o TokenIssues(content, 1, {"*ngSwitch"}, "control_flow_migration", "suggestion", TRUE)
  \o TokenIssues(content, 1, {"| async"}, "deprecated_api", "info", FALSE)
  \o TokenIssues(content, 1, {"| json"}, "deprecated_api", "info", FALSE)

analyzeTemplate(content) ==
  TokenIssues(content, 1, {"*ngIf"}, "control_flow_migration", "suggestion", TRUE)
  \o TokenIssues(content, 1, {"*ngFor"}, "control_flow_migration", "suggestion", TRUE)
  \o TokenIssues(content, 1, {"*ngSwitch"}, "control_flow_migration", "suggestion", TRUE)
  \o TokenIssues(content, 1, {"| async"}, "deprecated_api", "info", FALSE)
  \o TokenIssues(content, 1, {"| json"}, "deprecated_api", "info", FALSE)

RECURSIVE Merge(_, _)
\* { ...a, ...b }
Merge(a, b) == IF b = <<>> THEN a ELSE Merge(SetEntry(a, Head(b)[1], Head(b)[2]), Tail(b))

SectionEntries(members, key) ==
  IF \E i \in 1..Len(members) : members[i].key = key
  THEN (CHOOSE m \in {members[i] : i \in 1..Len(members)} : m.key = key).entries
  ELSE <<>>

\* mutant: the version is compared with an expected major version 20
StartsWith5_expected20(version) == version \in {"20.0.0", "20.1.0"}

\* String.startsWith('5.')
StartsWith5(version) == version \in {"5.2.0", "5.0.0"}

RECURSIVE ObsoleteIssues(_, _)
ObsoleteIssues(dependencies, deps) ==
  IF deps = <<>> THEN <<>>
  ELSE (IF Truthy(Lookup(dependencies, Head(deps)))
        THEN <<Issue("deprecated_api", "warning", 0, <<>>, Head(deps))>> ELSE <<>>)
       \o ObsoleteIssues(dependencies, Tail(deps))

\* mutant: the SyntaxError is not caught, analyzeFile's catch returns []
analyzePackageJson_uncaught(content) ==
  LET packageJson == JSONparse(content) IN
  IF ~packageJson.ok THEN <<>>
  ELSE
    LET dependencies == Merge(SectionEntries(packageJson.members, "dependencies"),
                              SectionEntries(packageJson.members, "devDependencies"))
        angularCore == Lookup(dependencies, "@angular/core")
    IN (IF Truthy(angularCore) /\ ~StartsWith5(angularCore)
        THEN <<Issue("incompatible_version", "error", 0, <<>>, angularCore)>> ELSE <<>>)
       \o ObsoleteIssues(dependencies, obsoleteDeps)

analyzePackageJson(content) ==
  LET packageJson == JSONparse(content) IN
  IF ~packageJson.ok
  THEN <<Issue("deprecated_api", "error", 0, <<>>, "package.json")>>
  ELSE
    LET dependencies == Merge(SectionEntries(packageJson.members, "dependencies"),
                              SectionEntries(packageJson.members, "devDependencies"))
        angularCore == Lookup(dependencies, "@angular/core")
    IN (IF Truthy(angularCore) /\ ~StartsWith5(angularCore)
        THEN <<Issue("incompatible_version", "error", 0, <<>>, angularCore)>> ELSE <<>>)
       \o ObsoleteIssues(dependencies, obsoleteDeps)

analyzeGeneral(content) ==
  IncludeIssues(content,
                << <<"from '@angular/http'", "from \"@angular/http\"">>,
                   <<"from 'rxjs/operators'", "from \"rxjs/operators\"">> >>,
                "deprecated_api", "warning")

\* the issues the rule set of the file's type finds
Detect(file) ==
  CASE file.type = "component"    -> analyzeComponent(file.content)
    [] file.type = "service"      -> analyzeService(file.content)
    [] file.type = "module"       -> analyzeModule(file.content)
    [] file.type = "html"         -> analyzeTemplate(file.content)
    [] file.type = "package.json" -> analyzePackageJson(file.content)
    [] OTHER                      -> analyzeGeneral(file.content)

\* Angular5Analyzer.analyzeFile; throws: an exception is raised inside the try
\* mutant: the catch returns the issues anyway
analyzeFile_keepsIssues(file, throws) == Detect(file)

analyzeFile(file, throws) == IF throws THEN <<>> ELSE Detect(file)

\* whether an exception can reach analyzeFile's catch: analyzePackageJson has
\* its own try/catch around all it does
DetectCanThrow(file) == file.type # "package.json"

\* ---------------------------------------------------------- classification
\* A path is a sequence of tokens: directories ("src/", "app/"), a stem, and
\* dotted parts (".component", ".ts").
DirTokens == {"src/", "app/", "legacy/"}
DotTokens == {".component", ".service", ".module", ".routing", ".spec",
              ".ts", ".html", ".css", ".scss", ".json"}

RECURSIVE basename(_)
\* path.basename
basename(p) ==
  IF \E i \in 1..Len(p) : p[i] \in DirTokens THEN basename(Tail(p)) ELSE p

\* path.extname: the last dotted part, unless the base name has nothing before it
extname(p) ==
  LET b == basename(p) IN
  IF Len(b) >= 2 /\ b[Len(b)] \in DotTokens THEN b[Len(b)] ELSE ""

\* fileName.includes('.<part>.')
NameIncludes(b, part) ==
  \E i \in 1..(Len(b) - 1) : b[i] = part /\ b[i + 1] \in DotTokens

\* the values of the FileType enum
FileType == {"component", "service", "module", "routing", "package.json",
             "angular.json", "tsconfig.json", "html", "css", "scss", "other"}

\* mutant: no tag for a file that is neither configuration, TypeScript, HTML nor CSS
determineFileType_partial(filePath) ==
  LET fileName == basename(filePath)
      extension == extname(filePath)
  IN IF fileName = <<"package", ".json">> THEN "package.json"
     ELSE IF fileName = <<"angular", ".json">> THEN "angular.json"
     ELSE IF fileName = <<"tsconfig", ".json">> THEN "tsconfig.json"
     ELSE IF extension = ".ts"
       THEN IF NameIncludes(fileName, ".component") THEN "component"
            ELSE IF NameIncludes(fileName, ".service") THEN "service"
            ELSE IF NameIncludes(fileName, ".module") THEN "module"
            ELSE IF NameIncludes(fileName, ".routing") THEN "routing"
            ELSE "other"
     ELSE IF extension = ".html" THEN "html"
     ELSE IF extension = ".css" THEN "css"
     ELSE IF extension = ".scss" THEN "scss"
     ELSE "null"

determineFileType(filePath) ==
  LET fileName == basename(filePath)
      extension == extname(filePath)
  IN IF fileName = <<"package", ".json">> THEN "package.json"
     ELSE IF fileName = <<"angular", ".json">> THEN "angular.json"
     ELSE IF fileName = <<"tsconfig", ".json">> THEN "tsconfig.json"
     ELSE IF extension = ".ts"
       THEN IF NameIncludes(fileName, ".component") THEN "component"
            ELSE IF NameIncludes(fileName, ".service") THEN "service"
            ELSE IF NameIncludes(fileName, ".module") THEN "module"
            ELSE IF NameIncludes(fileName, ".routing") THEN "routing"
            ELSE "other"
     ELSE IF extension = ".html" THEN "html"
     ELSE IF extension = ".css" THEN "css"
     ELSE IF extension = ".scss" THEN "scss"
     ELSE "other"


\* ========================================================= the coordinator
VARIABLES
  options,   \* MigrationOptions: mode, exclude, include
  disk,      \* the files glob finds under the project root, in pattern order
  pc,        \* where migrateProject is
  idx,       \* the index of the running for-loop
  files,     \* project.files
  report,    \* <<>>, or <<the MigrationReport returned>>
  written,   \* the (path, content) pairs written back to the project's files
  trace,     \* history: the calls made, in order
  tfile,     \* transformer runs: the file handed to transformFile
  runs,      \* transformer runs: the record lists returned so far
  tpc,       \* transformer runs: "off", "new", "once", "twice"
  detected,  \* transformer runs: the issue lists analyzeFile returned for tfile
  tpath,     \* classification: the path handed to determineFileType
  tags,      \* classification: the tags determineFileType returned so far
  orchOptions,   \* orchestrator: MigrationOptions (phases, validate, backup, rollback)
  opc,           \* orchestrator: where executeFullMigration is
  currentPhase,  \* orchestrator: the loop's phase counter
  results,       \* orchestrator: the PhaseResult list
  commits,       \* orchestrator: the project's git history, a list of trees
  tree,          \* orchestrator: the project's working tree
  log,           \* orchestrator: the steps logged, in order
  outcome,       \* orchestrator: <<>>, or <<the MigrationResult returned>>
  projects,      \* batch: the projects handed to executeMigrations
  delay,         \* batch: options.delayBetweenMigrations
  bpc,           \* batch: where executeMigrations is
  bi,            \* batch: the loop index i (from 0)
  batchResults,  \* batch: the ProjectMigrationResult list
  batchLog,      \* batch: the steps taken, in order
  batch          \* batch: <<>>, or <<the BatchMigrationResult returned>>

vars == <<options, disk, pc, idx, files, report, written, trace, tfile, runs, tpc,
          detected, tpath, tags, orchOptions, opc, currentPhase, results, commits,
          tree, log, outcome, projects, delay, bpc, bi, batchResults, batchLog, batch>>

engineVars == <<options, disk, pc, idx, files, report, written, trace>>
runVars == <<tfile, runs, tpc, detected, tpath, tags>>
phaseVars == <<orchOptions, opc, currentPhase, results, commits, tree, log, outcome>>
batchVars == <<projects, delay, bpc, bi, batchResults, batchLog, batch>>

\* the orchestrator and the batch script are not running
ToolsOff ==
  /\ orchOptions = [phases |-> <<>>, validate |-> FALSE, backup |-> FALSE,
                    rollback |-> FALSE]
  /\ opc = "off"
  /\ currentPhase = 0
  /\ results = <<>>
  /\ commits = <<>>
  /\ tree = <<>>
  /\ log = <<>>
  /\ outcome = <<>>
  /\ projects = <<>>
  /\ delay = 0
  /\ bpc = "off"
  /\ bi = 0
  /\ batchResults = <<>>
  /\ batchLog = <<>>
  /\ batch = <<>>

\* ------------------------------------------------------------ fixtures
\* MigrationMode, and a string that is none of its values
MigrationModes == {"analyze", "migrate", "dry_run"}
ModeInputs == MigrationModes \cup {"full"}

FilterInputs == { <<>>, <<<<".service">>>>, <<<<"package">>>> }

PackageJsonFile ==
  [path |-> <<"package", ".json">>,
   content |-> <<"{", "dependencies", "{", "@angular/core", "5.2.0",
                 "@angular/http", "5.2.0", "}", "}">>]

AngularJsonFile == [path |-> <<"angular", ".json">>, content |-> <<"{", "}">>]

SourceFiles ==
  << [path |-> <<"src/", "app/", "app", ".component", ".ts">>,
      content |-> <<"@Component(", "{", "selector: 'app'", "}", ")", NL,
                    "export class X {", NL,
                    "constructor(", "private svc: MyService", ")", "{", "}", NL,
                    "FormGroup(", ")", NL, "}">>],
     [path |-> <<"src/", "app/", "data", ".service", ".ts">>,
      content |-> <<"@Injectable(", "{", "}", ")", NL, "export class X {", NL,
                    "constructor(", "public api: Api", ")", "{", "}", NL, "}">>],
     [path |-> <<"src/", "app/", "app", ".module", ".ts">>,
      content |-> <<"@NgModule(", "{", "HttpModule", "}", ")">>],
     [path |-> <<"src/", "app/", "app", ".component", ".html">>,
      content |-> <<"*ngIf", "=", DQ, "cond", DQ, NL, "</ng-container>">>],
     [path |-> <<"src/", "main", ".ts">>,
      content |-> <<"import { Http }", "from '@angular/http'">>] >>

\* what glob can return: the patterns in order, src/**/*.ts first, then the
\* templates, then package.json and angular.json
Candidates == SourceFiles \o <<PackageJsonFile, AngularJsonFile>>

RECURSIVE Pick(_, _)
\* the sub-sequence of s at the indices of the set I
Pick(s, I) ==
  IF s = <<>> THEN <<>>
  ELSE (IF Len(s) \in I THEN Pick(SubSeq(s, 1, Len(s) - 1), I) \o <<s[Len(s)]>>
        ELSE Pick(SubSeq(s, 1, Len(s) - 1), I))

Paths(fs) == {fs[i].path : i \in 1..Len(fs)}

\* ------------------------------------------------------------ operations
\* mutant: the exclude patterns are not consulted
shouldProcessFile_includeOnly(file, opts) ==
  IF /\ Len(opts.include) > 0
     /\ ~\E k \in 1..Len(opts.include) : IsSubSeq(opts.include[k], file.path)
  THEN FALSE
  ELSE TRUE

shouldProcessFile(file, opts) ==
  IF \E k \in 1..Len(opts.exclude) : IsSubSeq(opts.exclude[k], file.path)
  THEN FALSE
  ELSE IF /\ Len(opts.include) > 0
          /\ ~\E k \in 1..Len(opts.include) : IsSubSeq(opts.include[k], file.path)
  THEN FALSE
  ELSE TRUE

\* mutant: the transformer runs in every mode
runsTransformer_always(opts) == TRUE

\* migrateProject's `if (options.mode !== MigrationMode.ANALYZE)`
runsTransformer(opts) == opts.mode # "analyze"

HasTransformations(f) == Len(f.transformations) > 0

\* mutant: modifiedFiles counts the files with an applied transformation
calculateSummary_applied(fs) ==
  [totalFiles |-> Len(fs),
   modifiedFiles |->
     Cardinality({i \in 1..Len(fs) :
        \E k \in 1..Len(fs[i].transformations) :
           fs[i].transformations[k].status = "applied"}),
   totalIssues |-> SumSeq([i \in 1..Len(fs) |-> Len(fs[i].issues)]),
   appliedTransformations |-> 0,
   failedTransformations |-> 0]

calculateSummary(fs) ==
  [totalFiles |-> Len(fs),
   modifiedFiles |-> Cardinality({i \in 1..Len(fs) : HasTransformations(fs[i])}),
   totalIssues |-> SumSeq([i \in 1..Len(fs) |-> Len(fs[i].issues)]),
   appliedTransformations |->
     SumSeq([i \in 1..Len(fs) |->
        Cardinality({k \in 1..Len(fs[i].transformations) :
                       fs[i].transformations[k].status = "applied"})]),
   failedTransformations |->
     SumSeq([i \in 1..Len(fs) |->
        Cardinality({k \in 1..Len(fs[i].transformations) :
                       fs[i].transformations[k].status = "failed"})])]

generateRecommendations(fs) ==
  (IF \E i \in 1..Len(fs) : fs[i].type = "module" THEN <<"standalone">> ELSE <<>>)
  \o (IF \E i \in 1..Len(fs) :
          includes(fs[i].content, "*ngIf") \/ includes(fs[i].content, "*ngFor")
      THEN <<"control flow">> ELSE <<>>)
  \o (IF \E i \in 1..Len(fs) :
          includes(fs[i].content, "FormGroup") /\ ~includes(fs[i].content, "FormGroup<")
      THEN <<"typed forms">> ELSE <<>>)

fileDetails(fs) ==
  [i \in 1..Len(fs) |->
     [file |-> fs[i], issues |-> fs[i].issues,
      transformations |-> fs[i].transformations, processingTime |-> 0]]

MigrationReport(fs, opts) ==
  [options |-> opts,
   summary |-> calculateSummary(fs),
   fileDetails |-> fileDetails(fs),
   recommendations |-> generateRecommendations(fs)]

\* isAngularProject: package.json and angular.json exist, @angular/core is a dependency
isAngularProject(found) ==
  /\ PackageJsonFile.path \in Paths(found)
  /\ AngularJsonFile.path \in Paths(found)

Event(op, i, fault) == [op |-> op, file |-> i, fault |-> fault]

\* ------------------------------------------------------------ actions
\* findAngularDirectories + projectAnalyzer.analyze up to the file loop; the
\* configuration files may fail to load (readJson), which is fatal
AnalyzeAngularProject ==
  /\ pc = "start"
  /\ \E configLoads \in BOOLEAN :
       pc' = IF isAngularProject(disk) /\ configLoads THEN "read" ELSE "failed"
  /\ idx' = 1
  /\ UNCHANGED <<options, disk, files, report, written, trace, runVars, phaseVars, batchVars>>

\* mutant: a file that was read is pushed onto the list twice
ReadFile_pushesTwice ==
  /\ pc = "read"
  /\ idx <= Len(disk)
  /\ \E readable \in BOOLEAN :
       IF readable
       THEN LET file == [path |-> disk[idx].path,
                         type |-> determineFileType(disk[idx].path),
                         content |-> disk[idx].content,
                         issues |-> <<>>,
                         transformations |-> <<>>]
            IN /\ files' = files \o <<file, file>>
               /\ trace' = Append(trace, Event("classify", Len(files) + 1, 0))
       ELSE UNCHANGED <<files, trace>>
  /\ idx' = idx + 1
  /\ UNCHANGED <<options, disk, pc, report, written, runVars, phaseVars, batchVars>>

\* one iteration of analyzeProjectFiles: readFile may fail, the file is then skipped
ReadFile ==
  /\ pc = "read"
  /\ idx <= Len(disk)
  /\ \E readable \in BOOLEAN :
       IF readable
       THEN /\ files' = Append(files,
                 [path |-> disk[idx].path,
                  type |-> determineFileType(disk[idx].path),
                  content |-> disk[idx].content,
                  issues |-> <<>>,
                  transformations |-> <<>>])
            /\ trace' = Append(trace, Event("classify", Len(files) + 1, 0))
       ELSE UNCHANGED <<files, trace>>
  /\ idx' = idx + 1
  /\ UNCHANGED <<options, disk, pc, report, written, runVars, phaseVars, batchVars>>

ReadDone ==
  /\ pc = "read"
  /\ idx > Len(disk)
  /\ pc' = "detect"
  /\ idx' = 1
  /\ UNCHANGED <<options, disk, files, report, written, trace, runVars, phaseVars, batchVars>>

\* at most one exception is injected into the analyzer or the transformer per run
NoFaultYet == \A k \in 1..Len(trace) : trace[k].fault = 0

\* mutant: detection also strips the line breaks of the content it has read
DetectFile_normalises ==
  /\ pc = "detect"
  /\ idx <= Len(files)
  /\ \E throws \in {FALSE} \cup {t \in {TRUE} : NoFaultYet /\ DetectCanThrow(files[idx])} :
       /\ files' = [files EXCEPT ![idx].issues = @ \o analyzeFile(files[idx], throws),
                                 ![idx].content = NoWs(@)]
       /\ trace' = Append(trace, Event("detect", idx, IF throws THEN 1 ELSE 0))
  /\ idx' = idx + 1
  /\ UNCHANGED <<options, disk, pc, report, written, runVars, phaseVars, batchVars>>

\* one iteration of detectAngular5Patterns
DetectFile ==
  /\ pc = "detect"
  /\ idx <= Len(files)
  /\ \E throws \in {FALSE} \cup {t \in {TRUE} : NoFaultYet /\ DetectCanThrow(files[idx])} :
       /\ files' = [files EXCEPT ![idx].issues = @ \o analyzeFile(files[idx], throws)]
       /\ trace' = Append(trace, Event("detect", idx, IF throws THEN 1 ELSE 0))
  /\ idx' = idx + 1
  /\ UNCHANGED <<options, disk, pc, report, written, runVars, phaseVars, batchVars>>

\* mutant: the detection loop is left after its first file
DetectDone_early ==
  /\ pc = "detect"
  /\ idx > 1
  /\ pc' = IF runsTransformer(options) THEN "transform" ELSE "report"
  /\ idx' = 1
  /\ UNCHANGED <<options, disk, files, report, written, trace, runVars, phaseVars, batchVars>>

DetectDone ==
  /\ pc = "detect"
  /\ idx > Len(files)
  /\ pc' = IF runsTransformer(options) THEN "transform" ELSE "report"
  /\ idx' = 1
  /\ UNCHANGED <<options, disk, files, report, written, trace, runVars, phaseVars, batchVars>>

\* one iteration of applyAngularTransformations on a file that passes the filters
TransformFile ==
  /\ pc = "transform"
  /\ idx <= Len(files)
  /\ shouldProcessFile(files[idx], options)
  /\ \E fault \in {0} \cup {j \in ThrowPoints(files[idx]) : NoFaultYet} :
       /\ files' = [files EXCEPT
                      ![idx].transformations = @ \o transformFile(files[idx], fault)]
       /\ trace' = Append(trace, Event("transform", idx, fault))
  /\ idx' = idx + 1
  /\ UNCHANGED <<options, disk, pc, report, written, runVars, phaseVars, batchVars>>

\* one iteration of applyAngularTransformations on a filtered-out file
SkipFile ==
  /\ pc = "transform"
  /\ idx <= Len(files)
  /\ ~shouldProcessFile(files[idx], options)
  /\ idx' = idx + 1
  /\ UNCHANGED <<options, disk, pc, files, report, written, trace, runVars, phaseVars, batchVars>>

TransformDone ==
  /\ pc = "transform"
  /\ idx > Len(files)
  /\ pc' = "report"
  /\ idx' = 1
  /\ UNCHANGED <<options, disk, files, report, written, trace, runVars, phaseVars, batchVars>>

\* generateReport and the return of migrateProject; options.generateReport is
\* read only here, and the renderer it calls may fail, which is fatal
GenerateReport ==
  /\ pc = "report"
  /\ \E generate \in BOOLEAN, rendered \in BOOLEAN :
       IF generate /\ ~rendered
       THEN pc' = "failed" /\ UNCHANGED report
       ELSE pc' = "done" /\ report' = <<MigrationReport(files, options)>>
  /\ UNCHANGED <<options, disk, idx, files, written, trace, runVars, phaseVars, batchVars>>

Init ==
  /\ options \in [mode : ModeInputs, exclude : FilterInputs, include : FilterInputs]
  /\ \E I \in SUBSET (1..Len(Candidates)) :
       /\ Cardinality(I) <= MaxFiles
       /\ disk = Pick(Candidates, I)
  /\ pc = "start"
  /\ idx = 1
  /\ files = <<>>
  /\ report = <<>>
  /\ written = <<>>
  /\ trace = <<>>
  /\ tfile = [type |-> "other", content |-> <<>>]
  /\ runs = <<>>
  /\ tpc = "off"
  /\ detected = <<>>
  /\ tpath = <<>>
  /\ tags = <<>>
  /\ ToolsOff

Next ==
  \/ AnalyzeAngularProject
  \/ ReadFile
  \/ ReadDone
  \/ DetectFile
  \/ DetectDone
  \/ TransformFile
  \/ SkipFile
  \/ TransformDone
  \/ GenerateReport

Spec == Init /\ [][Next]_vars


\* ==================================================== transformer runs
\* transformFile applied to one file, and applied again to the file with the
\* content the first run left (`after` of its last record).

SeqsUpTo(S, n) == UNION {[1..k -> S] : k \in 0..n}

ComponentDecorators ==
  { <<>>,
    <<"@Component(", "{", "selector: 'app'", "}", ")", NL>>,
    <<"@Component(", "{", "standalone: true", "}", ")", NL>>,
    <<"@Component(", "{", "styles: ['a{", "}", "']", "}", ")", NL>> }

ServiceDecorators ==
  { <<>>,
    <<"@Injectable(", ")", NL>>,
    <<"@Injectable(", "{", "}", ")", NL>>,
    <<"@Injectable(", "{", "providedIn: 'root'", "}", ")", NL>>,
    <<"@Injectable(", "{", "providedIn: 'any'", "}", ")", NL>> }

CoreImports ==
  { <<>>,
    <<"import { Component } from '@angular/core'", NL>>,
    <<"import * as ng from '@angular/core'", NL>> }

ClassHeads == { <<"export class X {", NL>>, <<"export class X implements OnInit {", NL>> }

Constructors ==
  { <<"constructor(", "private svc: MyService", ")", "{", "}", NL>>,
    <<"constructor(", "n: number", ")", "{", "}", NL>>,
    <<"constructor(", "private svc", ")", "{", "}", NL>> }

FormCalls ==
  { <<>>, <<"FormGroup(", ")", NL>>, <<"FormGroup(", "{}", ")", NL>> }

ImportPaths ==
  { <<>>, <<"from '@angular/http'", NL>>, <<"from \"rxjs/operators\"", NL>> }

ComponentContents ==
  { d \o i \o h \o Flatten(cs) \o f \o p :
      d \in ComponentDecorators, i \in CoreImports, h \in ClassHeads,
      cs \in SeqsUpTo(Constructors, MaxCtors), f \in FormCalls, p \in ImportPaths }

ServiceContents ==
  { d \o i \o h \o Flatten(cs) :
      d \in ServiceDecorators, i \in CoreImports, h \in ClassHeads,
      cs \in SeqsUpTo(Constructors, MaxCtors) }

ModuleContents ==
  { <<>>, <<"@NgModule(", "{", "HttpModule", "}", ")">>,
    <<"@NgModule(", "{", "ReactiveFormsModule", "}", ")">> }

TemplateFragments ==
  { <<"*ngIf", "=", DQ, "cond", DQ>>,
    <<"*ngIf", "=", "'", "cond", "'">>,
    <<"*ngFor", "=", DQ, "let x of ", "xs", DQ>>,
    <<"*ngFor", "=", DQ, "let x of ", "xs", "; let i = index", DQ>>,
    <<"*ngFor", "=", DQ, "let x of ", "xs", "; trackBy: f", DQ>>,
    <<"class", "=", DQ, "a", DQ>>,
    <<"</ng-container>">>,
    <<"*ngSwitch", "| async">>,
    <<NL>> }

TemplateContents == { Flatten(fs) : fs \in SeqsUpTo(TemplateFragments, MaxTpl) }

ManifestEntries ==
  { <<n, v>> : n \in {"@angular/core", "rxjs", "@angular/http", "rxjs-compat"},
               v \in {"5.2.0", "^20.0.0", ""} }

DistinctNames(es) == \A i, j \in 1..Len(es) : es[i][1] = es[j][1] => i = j

DevSections ==
  { <<>>, <<"devDependencies", "{", "}">>,
    <<"devDependencies", "{", "rxjs-compat", "5.2.0", "}">>,
    <<"devDependencies", "{", "@angular/core", "^20.0.0", "}">> }

ManifestContents ==
  { <<"{", "dependencies", "{">> \o Flatten(es) \o <<"}">> \o dev \o <<"}">> :
      es \in {x \in SeqsUpTo(ManifestEntries, MaxDeps) : DistinctNames(x)},
      dev \in DevSections }
  \cup { JSONstringify(<<[key |-> "dependencies", entries |-> es]>>) :
           es \in {x \in SeqsUpTo(ManifestEntries, MaxDeps) : DistinctNames(x)} }
  \cup { <<>>, <<"{", "dependencies", "{", "<<<", "}", "}">>, <<"{", "dependencies", "}">> }

TransformInputs ==
  [type : {"component"}, content : ComponentContents]
  \cup [type : {"service"}, content : ServiceContents]
  \cup [type : {"module"}, content : ModuleContents]
  \cup [type : {"html"}, content : TemplateContents]
  \cup [type : {"package.json"}, content : ManifestContents]
  \cup [type : {"routing", "angular.json", "css", "other"}, content : ModuleContents]

\* the content a run leaves: `after` of its last record, the input when it has none
ContentAfter(content, records) ==
  IF records = <<>> THEN content ELSE records[Len(records)].after

\* the content the k-th run starts from
ContentBefore(k) ==
  IF k = 1 THEN tfile.content ELSE ContentAfter(tfile.content, runs[1])

RunOnce ==
  /\ tpc = "new"
  /\ runs' = <<transformFile(tfile, 0)>>
  /\ tpc' = "once"
  /\ UNCHANGED <<tfile, detected, tpath, tags, engineVars, phaseVars, batchVars>>

RunAgain ==
  /\ tpc = "once"
  /\ runs' = Append(runs,
       transformFile([tfile EXCEPT !.content = ContentAfter(tfile.content, runs[1])], 0))
  /\ tpc' = "twice"
  /\ UNCHANGED <<tfile, detected, tpath, tags, engineVars, phaseVars, batchVars>>

\* analyzeFile on the file, before or after the transformer ran on it (neither
\* changes the file); the analyzer may raise inside analyzeFile's try block
RunDetect ==
  /\ tpc \in {"new", "once", "twice"}
  /\ detected = <<>>
  /\ \E throws \in {FALSE} \cup {t \in {TRUE} : DetectCanThrow(tfile)} :
       detected' = <<[threw |-> throws, issues |-> analyzeFile(tfile, throws)]>>
  /\ UNCHANGED <<tfile, runs, tpc, tpath, tags, engineVars, phaseVars, batchVars>>

TransformInit ==
  /\ tfile \in TransformInputs
  /\ runs = <<>>
  /\ tpc = "new"
  /\ detected = <<>>
  /\ tpath = <<>>
  /\ tags = <<>>
  /\ options = [mode |-> "analyze", exclude |-> <<>>, include |-> <<>>]
  /\ disk = <<>>
  /\ pc = "off"
  /\ idx = 1
  /\ files = <<>>
  /\ report = <<>>
  /\ written = <<>>
  /\ trace = <<>>
  /\ ToolsOff

TransformNext == RunOnce \/ RunAgain \/ RunDetect

TransformSpec == TransformInit /\ [][TransformNext]_vars


\* ======================================================== classification
\* determineFileType(filePath, content) called on one file, and called again.

PathDirs == { <<>>, <<"src/">>, <<"src/", "app/">> }

PathStems == { <<>>, <<"app">>, <<"package">>, <<"angular">>, <<"tsconfig">> }

PathInputs ==
  { d \o n \o x : d \in PathDirs, n \in PathStems, x \in SeqsUpTo(DotTokens, MaxDots) }

\* the second argument of determineFileType, which it does not read
ContentInputs == { <<>>, <<"@Component(", "{", "}", ")">> }

Classify ==
  /\ tpc = "classify"
  /\ Len(tags) < 2
  /\ tags' = Append(tags, determineFileType(tpath))
  /\ UNCHANGED <<tfile, runs, tpc, detected, tpath, engineVars, phaseVars, batchVars>>

ClassifyInit ==
  /\ tpath \in PathInputs
  /\ tfile \in [type : {"other"}, content : ContentInputs]
  /\ tags = <<>>
  /\ tpc = "classify"
  /\ runs = <<>>
  /\ detected = <<>>
  /\ options = [mode |-> "analyze", exclude |-> <<>>, include |-> <<>>]
  /\ disk = <<>>
  /\ pc = "off"
  /\ idx = 1
  /\ files = <<>>
  /\ report = <<>>
  /\ written = <<>>
  /\ trace = <<>>
  /\ ToolsOff

ClassifyNext == Classify

ClassifySpec == ClassifyInit /\ [][ClassifyNext]_vars


\* =========================================================== orchestrator
\* MigrationOrchestrator.executeFullMigration(options), step by step. The
\* project is a git repository: `commits` lists the committed trees, HEAD
\* last, and `tree` is the working tree. A tree is the list of the changes
\* made to the tracked files.

MaxPhases == 2     \* phases in a list given by the caller

DefaultPhases ==
  <<"phase-1-angular-5-to-8", "phase-2-angular-8-to-12",
    "phase-3-angular-12-to-16", "phase-4-angular-16-to-20">>

PhaseNames == {"phase-1-angular-5-to-8", "phase-2-angular-8-to-12"}

\* options.phases: absent (<<>>), or <<the list given>>, which may be empty
PhaseInputs == {<<>>} \cup { <<l>> : l \in SeqsUpTo(PhaseNames, MaxPhases) }

\* options.phases || [the four phases]: an empty list is kept
Phases(o) == IF o.phases = <<>> THEN DefaultPhases ELSE o.phases[1]

\* the history of the project before the migration
Histories == { << <<"v1">> >>, << <<"v1">>, <<"v1", "v2">> >> }

\* git add . && git commit: fails when the tree has nothing new
GitCommit(cs, t) == IF t = cs[Len(cs)] THEN cs ELSE Append(cs, t)

\* what npm run migrate and npm run validate can do for one phase
MigrationOutcomes == {"done", "stderr", "invalid", "failsEarly", "failsLate"}

\* the PhaseResult executePhase returns
PhaseResult(phase, out) ==
  IF out \in {"done", "stderr"}
  THEN [phase |-> phase, success |-> TRUE, errors |-> 0,
        warnings |-> IF out = "stderr" THEN 1 ELSE 0]
  ELSE [phase |-> phase, success |-> FALSE, errors |-> 1, warnings |-> 0]

\* results.every(r => r.success)
AllSucceeded(rs) == \A k \in 1..Len(rs) : rs[k].success

generateSummary(rs) ==
  [totalPhases |-> Len(rs),
   successfulPhases |-> Cardinality({k \in 1..Len(rs) : rs[k].success}),
   failedPhases |-> Cardinality({k \in 1..Len(rs) : ~rs[k].success}),
   warnings |-> SumSeq([k \in 1..Len(rs) |-> rs[k].warnings]),
   errors |-> SumSeq([k \in 1..Len(rs) |-> rs[k].errors])]

\* the result built by the catch block of executeFullMigration
Caught(rs) ==
  [success |-> FALSE, phases |-> rs, summary |-> generateSummary(rs),
   report |-> <<>>]

AfterPhase_continues(phaseResult, o) == "loop"

\* where the loop goes once a phase has returned
AfterPhase(phaseResult, o) ==
  IF phaseResult.success THEN "loop"
  ELSE IF o.rollback THEN "rollback"
  ELSE "report"

CreateInitialBackup ==
  /\ opc = "start"
  /\ IF orchOptions.backup
     THEN \E ok \in BOOLEAN :
            commits' = IF ok THEN GitCommit(commits, tree) ELSE commits
     ELSE UNCHANGED commits
  /\ log' = Append(log, [op |-> "begin", phase |-> "", tree |-> tree,
                         commits |-> commits])
  /\ opc' = "loop"
  /\ UNCHANGED <<orchOptions, currentPhase, results, tree, outcome>>
  /\ UNCHANGED <<engineVars, runVars, batchVars>>

\* the loop takes the next phase; executePhase makes its backup
ExecutePhase ==
  /\ opc = "loop"
  /\ currentPhase < Len(Phases(orchOptions))
  /\ currentPhase' = currentPhase + 1
  /\ IF orchOptions.backup
     THEN \E ok \in BOOLEAN :
            commits' = IF ok THEN GitCommit(commits, tree) ELSE commits
     ELSE UNCHANGED commits
  /\ log' = Append(log, [op |-> "executePhase",
                         phase |-> Phases(orchOptions)[currentPhase + 1],
                         tree |-> tree, commits |-> commits])
  /\ opc' = "migrate"
  /\ UNCHANGED <<orchOptions, results, tree, outcome>>
  /\ UNCHANGED <<engineVars, runVars, batchVars>>

\* runPhaseMigration, validatePhase when asked, and the push of the result
RunPhaseMigration ==
  /\ opc = "migrate"
  /\ \E out \in MigrationOutcomes :
       LET phase == Phases(orchOptions)[currentPhase]
           phaseResult == PhaseResult(phase, out)
       IN /\ out = "invalid" => orchOptions.validate
          /\ tree' = IF out \in {"done", "stderr", "invalid"}
                       THEN Append(tree, phase)
                     ELSE IF out = "failsLate" THEN Append(tree, "partial")
                     ELSE tree
          /\ results' = Append(results, phaseResult)
          /\ opc' = AfterPhase(phaseResult, orchOptions)
  /\ UNCHANGED <<orchOptions, currentPhase, commits, log, outcome>>
  /\ UNCHANGED <<engineVars, runVars, batchVars>>

\* git reset --hard HEAD~1; when it fails the catch block returns
RollbackToPreviousPhase ==
  /\ opc = "rollback"
  /\ \E ok \in BOOLEAN :
       IF ok /\ Len(commits) >= 2
       THEN /\ commits' = SubSeq(commits, 1, Len(commits) - 1)
            /\ tree' = commits[Len(commits) - 1]
            /\ log' = Append(log, [op |-> "rollback",
                                   phase |-> Phases(orchOptions)[currentPhase],
                                   tree |-> tree, commits |-> commits])
            /\ opc' = "report"
            /\ UNCHANGED outcome
       ELSE /\ outcome' = <<Caught(results)>>
            /\ opc' = "done"
            /\ UNCHANGED <<commits, tree, log>>
  /\ UNCHANGED <<orchOptions, currentPhase, results>>
  /\ UNCHANGED <<engineVars, runVars, batchVars>>

\* after the loop: generateSummary, generateFinalReport, and the return
GenerateFinalReport ==
  /\ \/ opc = "report"
     \/ opc = "loop" /\ currentPhase = Len(Phases(orchOptions))
  /\ \E ok \in BOOLEAN :
       outcome' = IF ok
                  THEN <<[success |-> AllSucceeded(results), phases |-> results,
                          summary |-> generateSummary(results),
                          report |-> <<"migration-orchestrator-report">>]>>
                  ELSE <<Caught(results)>>
  /\ opc' = "done"
  /\ UNCHANGED <<orchOptions, currentPhase, results, commits, tree, log>>
  /\ UNCHANGED <<engineVars, runVars, batchVars>>

\* the coordinator and the transformer runs are not running
EngineOff ==
  /\ options = [mode |-> "analyze", exclude |-> <<>>, include |-> <<>>]
  /\ disk = <<>>
  /\ pc = "off"
  /\ idx = 1
  /\ files = <<>>
  /\ report = <<>>
  /\ written = <<>>
  /\ trace = <<>>
  /\ tfile = [type |-> "other", content |-> <<>>]
  /\ runs = <<>>
  /\ tpc = "off"
  /\ detected = <<>>
  /\ tpath = <<>>
  /\ tags = <<>>

OrchestratorInit ==
  /\ orchOptions \in [phases : PhaseInputs, validate : BOOLEAN,
                      backup : BOOLEAN, rollback : BOOLEAN]
  /\ commits \in Histories
  /\ tree \in {commits[Len(commits)], Append(commits[Len(commits)], "wip")}
  /\ opc = "start"
  /\ currentPhase = 0
  /\ results = <<>>
  /\ log = <<>>
  /\ outcome = <<>>
  /\ projects = <<>>
  /\ delay = 0
  /\ bpc = "off"
  /\ bi = 0
  /\ batchResults = <<>>
  /\ batchLog = <<>>
  /\ batch = <<>>
  /\ EngineOff

OrchestratorNext ==
  \/ CreateInitialBackup
  \/ ExecutePhase
  \/ RunPhaseMigration
  \/ RollbackToPreviousPhase
  \/ GenerateFinalReport

OrchestratorSpec == OrchestratorInit /\ [][OrchestratorNext]_vars


\* ================================================================== batch
\* BatchMigrationScript.executeMigrations(projects, options), one iteration
\* of its loop at a time. migrateProject returns a report or throws.

MaxProjects == 3   \* projects selected for one batch

ProjectNames == {"app", "admin"}

ProjectInputs == SeqsUpTo(ProjectNames, MaxProjects)

\* options.delayBetweenMigrations, in milliseconds
DelayInputs == {0, 1000}

NeedsPause_afterEach(d, k, n) == d > 0

\* the pause test after project k (from 0) of n
NeedsPause(d, k, n) == d > 0 /\ k < n - 1

\* the try/catch around migrateProject, and the push of the entry
MigrateNextProject ==
  /\ bpc = "loop"
  /\ bi < Len(projects)
  /\ \E ok \in BOOLEAN :
       batchResults' =
         Append(batchResults,
                [project |-> projects[bi + 1], success |-> ok,
                 report |-> IF ok THEN <<"report">> ELSE <<>>,
                 error |-> IF ok THEN <<>> ELSE <<"message">>])
  /\ batchLog' = Append(batchLog, [op |-> "migrateProject", index |-> bi])
  /\ IF NeedsPause(delay, bi, Len(projects))
     THEN bpc' = "pause" /\ UNCHANGED bi
     ELSE bi' = bi + 1 /\ UNCHANGED bpc
  /\ UNCHANGED <<projects, delay, batch>>
  /\ UNCHANGED <<engineVars, runVars, phaseVars>>

\* the setTimeout between two migrations
Pause ==
  /\ bpc = "pause"
  /\ batchLog' = Append(batchLog, [op |-> "pause", index |-> bi])
  /\ bi' = bi + 1
  /\ bpc' = "loop"
  /\ UNCHANGED <<projects, delay, batchResults, batch>>
  /\ UNCHANGED <<engineVars, runVars, phaseVars>>

\* after the loop: the counts and the BatchMigrationResult
ReturnBatch ==
  /\ bpc = "loop"
  /\ bi >= Len(projects)
  /\ batch' =
       <<[totalProjects |-> Len(projects),
          successfulMigrations |->
            Cardinality({k \in 1..Len(batchResults) : batchResults[k].success}),
          failedMigrations |->
            Cardinality({k \in 1..Len(batchResults) : ~batchResults[k].success}),
          results |-> batchResults]>>
  /\ bpc' = "done"
  /\ UNCHANGED <<projects, delay, bi, batchResults, batchLog>>
  /\ UNCHANGED <<engineVars, runVars, phaseVars>>

BatchInit ==
  /\ projects \in ProjectInputs
  /\ delay \in DelayInputs
  /\ bpc = "loop"
  /\ bi = 0
  /\ batchResults = <<>>
  /\ batchLog = <<>>
  /\ batch = <<>>
  /\ orchOptions = [phases |-> <<>>, validate |-> FALSE, backup |-> FALSE,
                    rollback |-> FALSE]
  /\ opc = "off"
  /\ currentPhase = 0
  /\ results = <<>>
  /\ commits = <<>>
  /\ tree = <<>>
  /\ log = <<>>
  /\ outcome = <<>>
  /\ EngineOff

BatchNext == MigrateNextProject \/ Pause \/ ReturnBatch

BatchSpec == BatchInit /\ [][BatchNext]_vars


\* ================================================================== claims

\* ---- C1 ----------------------------------------------------------------
\* C1: idempotence of the transformer.  For every file type that has a
\* pipeline and every initial content, a second run of transformFile on the
\* content the first run left emits no record, so the content after the
\* second run equals the content after the first.
C1_Idempotence ==
  (tpc = "twice" /\ tfile.type \in PipelineTypes) =>
     /\ runs[2] = <<>>
     /\ ContentAfter(ContentBefore(2), runs[2]) = ContentBefore(2)

\* ---- C2 ----------------------------------------------------------------
Chained(records) ==
  \A i \in 1..(Len(records) - 1) : records[i].after = records[i + 1].before

\* C2: chaining invariant.  In every list of records returned by one
\* transformFile call, each record's `after` is the next record's `before`,
\* and the first record's `before` is the file's content at the start of the call.
C2_Chaining ==
  \A k \in 1..Len(runs) :
    /\ Chained(runs[k])
    /\ runs[k] # <<>> => runs[k][1].before = ContentBefore(k)

\* a call that returned three or more records, each one changing the content
C2_Witness ==
  /\ tpc = "once"
  /\ Len(runs[1]) >= 3
  /\ \A i \in 1..Len(runs[1]) : runs[1][i].after # runs[1][i].before

\* ---- shared vocabulary of the coordinator claims -------------------------
\* migrateProject has returned a report
Returned == pc = "done" /\ report # <<>>

Details == report[1].fileDetails

\* the call `op` was made on file i with the given outcome
Called(op, i, fault) == \E k \in 1..Len(trace) : trace[k] = Event(op, i, fault)

CalledOn(op, i) == \E k \in 1..Len(trace) : trace[k].op = op /\ trace[k].file = i

DetectThrew(i) == Called("detect", i, 1)

\* the path contains an exclude pattern, or include is non-empty and the path
\* contains none of its patterns
FilteredOut(path) ==
  \/ \E k \in 1..Len(options.exclude) : IsSubSeq(options.exclude[k], path)
  \/ /\ options.include # <<>>
     /\ \A k \in 1..Len(options.include) : ~IsSubSeq(options.include[k], path)

\* ---- C3 ----------------------------------------------------------------
RECURSIVE IssuesIn(_)
IssuesIn(details) ==
  IF details = <<>> THEN 0
  ELSE Len(Head(details).issues) + IssuesIn(Tail(details))

RECURSIVE ModifiedIn(_)
ModifiedIn(details) ==
  IF details = <<>> THEN 0
  ELSE (IF Head(details).transformations # <<>> THEN 1 ELSE 0) + ModifiedIn(Tail(details))

\* C3: summary consistency.  In every report returned by migrateProject,
\* summary.totalFiles is the number of fileDetails entries, summary.totalIssues
\* is the sum of issues.length over fileDetails, and summary.modifiedFiles is
\* the number of fileDetails with a non-empty transformations list, whatever
\* the mode, the filters and the per-file failures.
C3_SummaryConsistency ==
  Returned =>
    /\ report[1].summary.totalFiles = Len(Details)
    /\ report[1].summary.totalIssues = IssuesIn(Details)
    /\ report[1].summary.modifiedFiles = ModifiedIn(Details)

\* a report with issues and modified files, after a per-file failure, in a
\* run whose filters left a file out
C3_Witness ==
  /\ Returned
  /\ report[1].summary.totalIssues >= 1
  /\ report[1].summary.modifiedFiles >= 1
  /\ report[1].summary.modifiedFiles < report[1].summary.totalFiles
  /\ ~NoFaultYet

\* ---- C4 ----------------------------------------------------------------
\* C4: mode gating.  The detector is called once on every discovered file of
\* a run; the transformer is called only when options.mode is not analyze;
\* a report of an analyze run has empty transformations for every file and
\* summary.modifiedFiles = 0.
C4_ModeGating ==
  /\ pc \in {"transform", "report", "done"} =>
       \A i \in 1..Len(files) :
          Cardinality({k \in 1..Len(trace) :
                         trace[k].op = "detect" /\ trace[k].file = i}) = 1
  /\ \A k \in 1..Len(trace) : trace[k].op = "transform" => options.mode # "analyze"
  /\ (Returned /\ options.mode = "analyze") =>
       /\ \A i \in 1..Len(Details) : Details[i].transformations = <<>>
       /\ report[1].summary.modifiedFiles = 0

\* an analyze run has returned a report on files the transformer would have
\* changed, all of them detected
C4_Witness ==
  /\ Returned
  /\ options.mode = "analyze"
  /\ Len(files) >= 2
  /\ \E i \in 1..Len(files) :
       /\ ~FilteredOut(files[i].path)
       /\ Flatten(Steps(files[i])) # <<>>
  /\ \A i \in 1..Len(files) : CalledOn("detect", i)

RECURSIVE ExpectedWrites(_)
\* one write per file with a non-empty transformations list, carrying the
\* `after` of its last record
ExpectedWrites(details) ==
  IF details = <<>> THEN <<>>
  ELSE (IF Head(details).transformations # <<>>
        THEN <<[path |-> Head(details).file.path,
                content |-> Head(details).transformations[
                               Len(Head(details).transformations)].after]>>
        ELSE <<>>)
       \o ExpectedWrites(Tail(details))

\* C6: writer hand-off.  When a migrate run returns, the writer has been
\* called exactly once for each file whose transformations list is non-empty,
\* with that file's final `after` content; when a run in another mode
\* returns, the writer has been called for no file.
C6_WriterHandOff ==
  Returned =>
    written = (IF options.mode = "migrate" THEN ExpectedWrites(Details) ELSE <<>>)

C8_DetectionFailureIsolated ==
  Returned =>
    /\ Len(Details) = Len(files)
    /\ \A i \in 1..Len(Details) :
         /\ Details[i].file.path = files[i].path
         /\ CalledOn("detect", i)
         /\ Details[i].issues = (IF DetectThrew(i) THEN <<>> ELSE Detect(files[i]))
         /\ DetectThrew(i) => Details[i].issues = <<>>

\* detection threw for a file that has issues to report, and another file of
\* the returned report has its issues
C8_Witness ==
  /\ Returned
  /\ \E i, n \in 1..Len(Details) :
       /\ DetectThrew(i)
       /\ Detect(files[i]) # <<>>
       /\ n # i
       /\ Details[n].issues # <<>>

\* ---- C9 ----------------------------------------------------------------
\* C9: empty discovery is fatal.  migrateProject never returns a report whose
\* summary.totalFiles is 0.
C9_EmptyDiscoveryFatal ==
  report # <<>> => report[1].summary.totalFiles > 0

\* ---- C10 ---------------------------------------------------------------
\* the mode is none of the MigrationMode values, or a pattern is both
\* included and excluded
ConfigurationError ==
  \/ options.mode \notin MigrationModes
  \/ \E a \in 1..Len(options.include), b \in 1..Len(options.exclude) :
        options.include[a] = options.exclude[b]

\* C10: configuration errors are fatal before any work.  With an unknown
\* mode, or include and exclude in conflict, no file is classified, detected
\* or transformed and no report is returned.
C10_ConfigurationErrorFatal ==
  ConfigurationError => (trace = <<>> /\ report = <<>>)

\* ---- shared vocabulary of the transformer-run claims ----------------------
\* transformFile has returned for the file as it was handed in
Transformed == tpc \in {"once", "twice"}

\* analyzeFile has returned for the file without an exception inside it
Analyzed == detected # <<>> /\ ~detected[1].threw

Keys(entries) == {entries[i][1] : i \in 1..Len(entries)}

\* ---- C11 ---------------------------------------------------------------
\* C11: manifest round-trip.  For every manifest that is valid JSON, the
\* manifest rule gives one record whose `after` parses to a document in which
\* every package of the target map that was a key of dependencies or
\* devDependencies has its target version, and @angular/http and rxjs-compat
\* are keys of neither section, whatever version the input gave them.
C11_ManifestRoundTrip ==
  (Transformed /\ tfile.type = "package.json" /\ JSONparse(tfile.content).ok) =>
    /\ Len(runs[1]) = 1
    /\ LET input == JSONparse(tfile.content).members
           output == JSONparse(runs[1][1].after)
       IN /\ output.ok
          /\ \A key \in SectionKeys :
               /\ \A k \in 1..Len(AngularDependencyNames) :
                    AngularDependencyNames[k] \in Keys(SectionEntries(input, key)) =>
                      Lookup(SectionEntries(output.members, key), AngularDependencyNames[k])
                        = angularDependencies(AngularDependencyNames[k])
               /\ \A k \in 1..Len(obsoleteDeps) :
                    obsoleteDeps[k] \notin Keys(SectionEntries(output.members, key))

\* ---- C12 ---------------------------------------------------------------
\* C12: manifest parse failure.  For a package.json whose content is not
\* valid JSON, analyzeFile returns exactly one issue, of severity error and
\* without a line, and transformFile returns no record; neither raises.
C12_ManifestParseFailure ==
  (tfile.type = "package.json" /\ ~JSONparse(tfile.content).ok) =>
    /\ detected # <<>> =>
         /\ ~detected[1].threw
         /\ Len(detected[1].issues) = 1
         /\ detected[1].issues[1].severity = "error"
         /\ detected[1].issues[1].line = 0
    /\ \A k \in 1..Len(runs) : runs[k] = <<>>

\* both calls have returned for a manifest that is not valid JSON and not empty
C12_Witness ==
  /\ tfile.type = "package.json"
  /\ tfile.content # <<>>
  /\ ~JSONparse(tfile.content).ok
  /\ Analyzed
  /\ Transformed

\* ---- C13 ---------------------------------------------------------------
\* C13: module placeholder.  For every module file, whatever its content,
\* transformFile returns exactly one record, with status pending and with
\* before = after = the file's content.
C13_ModulePlaceholder ==
  (tfile.type = "module" /\ Transformed) =>
    /\ Len(runs[1]) = 1
    /\ runs[1][1].status = "pending"
    /\ runs[1][1].before = tfile.content
    /\ runs[1][1].after = tfile.content

\* transformFile has returned for a module file that declares no NgModule
C13_Witness ==
  /\ tfile.type = "module"
  /\ Transformed
  /\ ~includes(tfile.content, "@NgModule")
  /\ Len(runs[1]) = 1

\* ---- C14 ---------------------------------------------------------------
\* the seven tags of the specification's data model
SevenTags == {"component", "service", "module", "html", "package.json", "routing", "other"}

C15_DetectionFrame ==
  [][ (pc = "detect" /\ idx <= Len(files) /\ idx' = idx + 1) =>
        /\ \E returned \in {<<>>, Detect(files[idx])} :
             files' = [files EXCEPT ![idx].issues = @ \o returned]
        /\ disk' = disk
        /\ written' = written ]_vars

\* detection is over: it returned issues for one file with content and took
\* its error path for another
C15_Witness ==
  /\ pc \in {"transform", "report"}
  /\ \E i, j \in 1..Len(files) :
       /\ Called("detect", i, 0)
       /\ files[i].issues # <<>>
       /\ DetectThrew(j)
       /\ files[j].content # <<>>
       /\ files[j].content = disk[CHOOSE n \in 1..Len(disk) : disk[n].path = files[j].path].content

\* ---- C16 ---------------------------------------------------------------
\* C16: content holds the after state.  Once the transformer has produced at
\* least one record for a file, the file's content is the `after` of the last
\* record of its transformations list, in the project and in the report.
C16_ContentHoldsAfter ==
  /\ \A i \in 1..Len(files) :
       files[i].transformations # <<>> =>
         files[i].content = files[i].transformations[Len(files[i].transformations)].after
  /\ Returned =>
       \A i \in 1..Len(Details) :
         Details[i].transformations # <<>> =>
           Details[i].file.content
             = Details[i].transformations[Len(Details[i].transformations)].after

\* ---- C17 ---------------------------------------------------------------
\* the component has one constructor, which declares `private svc: MyService`
OneInjectingConstructor ==
  /\ tfile.type = "component"
  /\ Cardinality({i \in 1..Len(tfile.content) : tfile.content[i] = "constructor("}) = 1
  /\ \E i \in 1..(Len(tfile.content) - 1) :
       tfile.content[i] = "constructor(" /\ tfile.content[i + 1] = "private svc: MyService"

\* C17: constructor-injection migration.  For a component whose constructor
\* declares an access-modifier parameter, whatever the form of its class
\* declaration, analyzeFile returns one suggestion-level inject-migration
\* issue, and transformFile returns a record whose `after` has no constructor
\* with access-modifier parameters and has the declaration
\* `private svc = inject(MyService)`.
C17_ConstructorInjection ==
  OneInjectingConstructor =>
    /\ Analyzed =>
         Cardinality({k \in 1..Len(detected[1].issues) :
                        /\ detected[1].issues[k].type = "inject_migration"
                        /\ detected[1].issues[k].severity = "suggestion"}) = 1
    /\ Transformed =>
         \E k \in 1..Len(runs[1]) :
           /\ runs[1][k].type = "replace_inject"
           /\ \A i \in 1..Len(runs[1][k].after) :
                runs[1][k].after[i] # "private svc: MyService"
           /\ \E i \in 1..Len(runs[1][k].after) :
                runs[1][k].after[i] = "private svc = inject(MyService"

\* ---- C18 ---------------------------------------------------------------
\* the version of @angular/core in { ...dependencies, ...devDependencies },
\* "" when neither section has the key
CoreVersion ==
  LET members == JSONparse(tfile.content).members
      dev == SectionEntries(members, "devDependencies")
      dep == SectionEntries(members, "dependencies")
  IN IF "@angular/core" \in Keys(dev) THEN Lookup(dev, "@angular/core")
     ELSE Lookup(dep, "@angular/core")

HasCore ==
  \E key \in SectionKeys :
     "@angular/core" \in Keys(SectionEntries(JSONparse(tfile.content).members, key))

IncompatibleVersionIssues ==
  {k \in 1..Len(detected[1].issues) : detected[1].issues[k].type = "incompatible_version"}

ManifestAnalyzed ==
  tfile.type = "package.json" /\ JSONparse(tfile.content).ok /\ Analyzed

\* C18 as stated: @angular/core at "5.2.0" yields exactly one error-severity
\* incompatible-version issue, and the core package is flagged exactly when
\* its version does not start with the expected major version 20.
C18_ExpectedMajorVersion ==
  ManifestAnalyzed =>
    /\ \A k \in IncompatibleVersionIssues : detected[1].issues[k].severity = "error"
    /\ Cardinality(IncompatibleVersionIssues)
         = (IF HasCore /\ CoreVersion \notin {"20.0.0", "20.1.0"} THEN 1 ELSE 0)

\* C18 amended: @angular/core at "5.2.0" yields no incompatible-version
\* issue; the core package is flagged, with exactly one error-severity issue,
\* exactly when its version (devDependencies overriding dependencies) is a
\* non-empty string that does not start with "5.".
C18_VersionDetection ==
  ManifestAnalyzed =>
    /\ \A k \in IncompatibleVersionIssues : detected[1].issues[k].severity = "error"
    /\ Cardinality(IncompatibleVersionIssues)
         = (IF CoreVersion \notin {"", "5.2.0", "5.0.0"} THEN 1 ELSE 0)

\* analyzeFile has returned for a manifest whose @angular/core is at "5.2.0"
C18_Witness ==
  /\ ManifestAnalyzed
  /\ HasCore
  /\ CoreVersion = "5.2.0"
  /\ IncompatibleVersionIssues = {}

\* ---- C19 ---------------------------------------------------------------
LegacyDirectives == {"*ngIf", "*ngFor", "*ngSwitch"}

ControlFlowIssues ==
  {k \in 1..Len(detected[1].issues) :
     /\ detected[1].issues[k].type = "control_flow_migration"
     /\ detected[1].issues[k].severity = "suggestion"}

NgIfCond == <<"*ngIf", "=", DQ, "cond", DQ>>

Occurs(pat, c) ==
  \E s \in 0..(Len(c) - Len(pat)) : SubSeq(c, s + 1, s + Len(pat)) = pat

TemplateAnalyzed == tfile.type = "html" /\ Analyzed

\* C19 as stated: one suggestion-level control-flow issue per occurrence of a
\* legacy directive, and for an occurrence written *ngIf="cond" an issue whose
\* code is the whole directive *ngIf="cond".
C19_WholeDirectiveCode ==
  TemplateAnalyzed =>
    /\ Cardinality(ControlFlowIssues)
         = Cardinality({i \in 1..Len(tfile.content) : tfile.content[i] \in LegacyDirectives})
    /\ Occurs(NgIfCond, tfile.content) =>
         \E k \in ControlFlowIssues : detected[1].issues[k].code = NgIfCond

\* C19 amended: one suggestion-level control-flow issue per occurrence of
\* *ngIf, *ngFor or *ngSwitch, whose code is the directive's name alone (for
\* *ngIf="cond": `*ngIf`); transformFile rewrites every *ngIf="cond" to
\* `@if (cond) {`.
C19_ControlFlowDetection ==
  /\ TemplateAnalyzed =>
       /\ Cardinality(ControlFlowIssues)
            = Cardinality({i \in 1..Len(tfile.content) : tfile.content[i] \in LegacyDirectives})
       /\ \A k \in ControlFlowIssues :
            /\ Len(detected[1].issues[k].code) = 1
            /\ detected[1].issues[k].code[1] \in LegacyDirectives
       /\ Occurs(NgIfCond, tfile.content) =>
            \E k \in ControlFlowIssues : detected[1].issues[k].code = <<"*ngIf">>
  /\ (tfile.type = "html" /\ Transformed /\ Occurs(NgIfCond, tfile.content)) =>
       /\ Len(runs[1]) = 1
       /\ Occurs(<<"@if (", "cond", ") {">>, runs[1][1].after)
       /\ ~Occurs(NgIfCond, runs[1][1].after)

\* both calls have returned for a template with *ngIf="cond" and another
\* legacy directive
C19_Witness ==
  /\ TemplateAnalyzed
  /\ Transformed
  /\ Occurs(NgIfCond, tfile.content)
  /\ Cardinality(ControlFlowIssues) = 2
  /\ \E i \in 1..Len(tfile.content) : tfile.content[i] = "*ngFor"

\* ---- C20 ---------------------------------------------------------------
RECURSIVE NewlinesIn(_)
NewlinesIn(c) ==
  IF c = <<>> THEN 0
  ELSE (IF Head(c) = NL THEN 1 ELSE 0) + NewlinesIn(Tail(c))

\* the position of the n-th occurrence of tok in c
NthPos(c, tok, n) ==
  CHOOSE s \in 1..Len(c) :
    c[s] = tok /\ Cardinality({j \in 1..s : c[j] = tok}) = n

\* the issues whose code starts with tok, in the order they were returned
IssuesOf(tok) ==
  SelectSeq(detected[1].issues, LAMBDA i : i.code # <<>> /\ i.code[1] = tok)

\* C20: line-number correctness.  The line of an issue is 1 plus the number
\* of newlines before the start of its match, so it lies between 1 and the
\* number of lines of the content: the n-th issue of a pattern carries the
\* line of the pattern's n-th match, and every issue's matched text begins
\* on the issue's line.
C20_LineNumbers ==
  Analyzed =>
    /\ \A k \in 1..Len(detected[1].issues) :
         LET i == detected[1].issues[k] IN
         i.line # 0 =>
           /\ i.line >= 1
           /\ i.line <= NewlinesIn(tfile.content) + 1
           /\ i.code # <<>> =>
                \E s \in 1..(Len(tfile.content) - Len(i.code) + 1) :
                  /\ SubSeq(tfile.content, s, s + Len(i.code) - 1) = i.code
                  /\ i.line = 1 + NewlinesIn(SubSeq(tfile.content, 1, s - 1))
    /\ tfile.type = "html" =>
         \A tok \in LegacyDirectives :
           \A n \in 1..Len(IssuesOf(tok)) :
             IssuesOf(tok)[n].line
               = 1 + NewlinesIn(SubSeq(tfile.content, 1, NthPos(tfile.content, tok, n) - 1))

\* an issue whose match starts neither on the first nor on the last line
C20_Witness ==
  /\ Analyzed
  /\ \E k \in 1..Len(detected[1].issues) :
       /\ detected[1].issues[k].line >= 2
       /\ detected[1].issues[k].line <= NewlinesIn(tfile.content)
       /\ detected[1].issues[k].code # <<>>

\* ---- C21 ---------------------------------------------------------------
\* the phase a call belongs to
Rank(op) == CASE op = "classify" -> 1 [] op = "detect" -> 2 [] op = "transform" -> 3

\* C21 as stated: the transformer's call on file N precedes the detector's
\* call on file N+1, and the detector's call on file N precedes the
\* classification of file N+1.
C21_FileByFile ==
  \A a, b \in 1..Len(trace) :
    (/\ trace[b].file = trace[a].file + 1
     /\ \/ trace[a].op = "transform" /\ trace[b].op = "detect"
        \/ trace[a].op = "detect" /\ trace[b].op = "classify") => a < b

\* C21 amended: processing is sequential and phase by phase.  The calls of a
\* run are ordered classification of all files, then detection of all files,
\* then (mode not analyze) transformation; within a phase the files are taken
\* one at a time in list order; no transformer call is made before every
\* discovered file has been detected.
C21_PhaseByPhase ==
  /\ \A a, b \in 1..Len(trace) :
       a < b =>
         /\ Rank(trace[a].op) <= Rank(trace[b].op)
         /\ trace[a].op = trace[b].op => trace[a].file < trace[b].file
  /\ (\E k \in 1..Len(trace) : trace[k].op = "transform") =>
       \A i \in 1..Len(files) : CalledOn("detect", i)

\* a run on two files or more, every one of them detected and transformed
C21_Witness ==
  /\ Returned
  /\ Len(files) >= 2
  /\ \A i \in 1..Len(files) : CalledOn("detect", i) /\ CalledOn("transform", i)

\* ---- C22 ---------------------------------------------------------------
\* how far file i has got: 1 classified, 2 detected, 3 transformed or
\* passed over by the transform step, 4 reported
Stage(i) ==
  IF report # <<>> THEN 4
  ELSE IF CalledOn("transform", i) \/ (pc = "transform" /\ idx > i)
          \/ pc \in {"report", "failed"} THEN 3
  ELSE IF CalledOn("detect", i) THEN 2
  ELSE 1

Calls(op, i) ==
  Cardinality({k \in 1..Len(trace) : trace[k].op = op /\ trace[k].file = i})

C22_Stages ==
  /\ \A i, j \in 1..Len(files) : files[i].path = files[j].path => i = j
  /\ \A i \in 1..Len(files) :
       /\ Calls("classify", i) = 1
       /\ Calls("detect", i) = (IF Stage(i) >= 2 THEN 1 ELSE 0)
       /\ Calls("transform", i) <= 1
       /\ Calls("transform", i) = 1 => Stage(i) >= 3
  /\ \A k \in 1..Len(trace) : trace[k].file \in 1..Len(files)
  /\ report # <<>> =>
       /\ Len(Details) = Len(files)
       /\ \A i \in 1..Len(files) : Details[i].file.path = files[i].path

C22_Forward ==
  /\ Len(files') >= Len(files)
  /\ \A i \in 1..Len(files) :
       /\ files'[i].path = files[i].path
       /\ files'[i].type = files[i].type
       /\ Stage(i)' >= Stage(i)
       /\ Stage(i)' <= Stage(i) + 1

\* C22: per-file state machine.  Every discovered file moves only forward,
\* one step at a time, through classified, detected, transformed or skipped,
\* reported; it is classified exactly once, detected exactly once,
\* transformed at most once, is exactly one entry of fileDetails, and no two
\* discovered files have the same path.
C22_PerFileStateMachine == []C22_Stages /\ [][C22_Forward]_vars

\* a returned report on a file that was transformed and a file the filters
\* kept from the transformer
C22_Witness ==
  /\ Returned
  /\ \E i, j \in 1..Len(files) :
       /\ Calls("transform", i) = 1
       /\ Calls("transform", j) = 0
       /\ Stage(j) = 4

\* ---- C23 ---------------------------------------------------------------
\* C23: no no-op records from rewrite rules.  Every record that transformFile
\* returns for a component, service, template or package.json file has an
\* `after` different from its `before`.
C23_NoNoOpRecords ==
  (Transformed /\ tfile.type \in {"component", "service", "html", "package.json"}) =>
    \A k \in 1..Len(runs[1]) : runs[1][k].after # runs[1][k].before

\* ---- C24 ---------------------------------------------------------------
CountOf(c, S) == Cardinality({i \in 1..Len(c) : c[i] \in S})

\* C24: control-flow closing markers.  In the record of a template, the
\* number of plain `}` introduced equals the number of block openers
\* (`@if (`, `@for (`) introduced, and a closing marker is rewritten only
\* when an opening marker was.
C24_ClosingMarkers ==
  (Transformed /\ tfile.type = "html") =>
    \A k \in 1..Len(runs[1]) :
      LET r == runs[1][k]
          openers == CountOf(r.after, {"@if (", "@for ("}) - CountOf(r.before, {"@if (", "@for ("})
          closers == CountOf(r.after, {"}"}) - CountOf(r.before, {"}"})
      IN closers = openers

\* ---- C25 ---------------------------------------------------------------
NgForPlain == <<"*ngFor", "=", DQ, "let x of ", "xs", DQ>>

NgForIndexed == <<"*ngFor", "=", DQ, "let x of ", "xs", "; let i = index", DQ>>

\* C25: loop-directive rewrite.  Every *ngFor="let x of xs" of a template is
\* rewritten to `@for (x of xs; track x) {`, and every
\* *ngFor="let x of xs; let i = index" to
\* `@for (x of xs; track x; let i = $index) {`, the collection being the
\* text up to the directive's own closing quote or semicolon, whatever
\* follows the directive.
C25_LoopRewrite ==
  (Transformed /\ tfile.type = "html") =>
    /\ Occurs(NgForPlain, tfile.content) =>
         /\ Len(runs[1]) = 1
         /\ Occurs(<<"@for (", "x of ", "xs", "; track x", ") {">>, runs[1][1].after)
         /\ ~Occurs(NgForPlain, runs[1][1].after)
    /\ Occurs(NgForIndexed, tfile.content) =>
         /\ Len(runs[1]) = 1
         /\ Occurs(<<"@for (", "x of ", "xs", "; track x", "; let i = $index", ") {">>,
                   runs[1][1].after)
         /\ ~Occurs(NgForIndexed, runs[1][1].after)

\* ---- C26 ---------------------------------------------------------------
\* the phases executePhase was entered for, in order
Started == SelectSeq(log, LAMBDA e : e.op = "executePhase")

\* the MigrationResult has been returned
Finished == outcome # <<>>

\* C26: phase orchestration stops at the first failure.  The configured
\* phases are executed strictly in list order, phase k+1 starts only after
\* phase k returned success, and no phase is executed after a failed one;
\* so in every result at most one phase is failed, a failed phase is the
\* last element of result.phases, and summary.totalPhases =
\* summary.successfulPhases + summary.failedPhases = length of result.phases.
C26_StopsAtFirstFailure ==
  LET ps == Phases(orchOptions) IN
  /\ Len(Started) <= Len(ps)
  /\ \A k \in 1..Len(Started) : Started[k].phase = ps[k]
  /\ Len(results) \in {Len(Started) - 1, Len(Started)}
  /\ \A k \in 1..Len(results) : results[k].phase = ps[k]
  /\ \A k \in 1..Len(results) :
       ~results[k].success => k = Len(results) /\ k = Len(Started)
  /\ Finished =>
       /\ outcome[1].phases = results
       /\ \A k \in 1..Len(results) : ~results[k].success => k = Len(results)
       /\ outcome[1].summary.failedPhases <= 1
       /\ outcome[1].summary.totalPhases =
            outcome[1].summary.successfulPhases + outcome[1].summary.failedPhases
       /\ outcome[1].summary.totalPhases = Len(outcome[1].phases)

\* a run of the four default phases returned after the second phase failed
C26_Witness ==
  /\ Finished
  /\ orchOptions.phases = <<>>
  /\ Len(outcome[1].phases) = 2
  /\ outcome[1].phases[1].success
  /\ ~outcome[1].phases[2].success
  /\ outcome[1].summary.failedPhases = 1

\* ---- C27 ---------------------------------------------------------------
\* rollbackToPreviousPhase has reset the repository
RolledBack == log # <<>> /\ log[Len(log)].op = "rollback"

\* C27: rollback restores the pre-phase state.  When phase k fails and
\* options.rollback is set, after rollbackToPreviousPhase the working tree
\* equals the state it had immediately before phase k started, whether or
\* not options.backup is set and whether or not the backup commit of phase k
\* succeeded; the work of earlier successful phases and the commits that
\* existed before the migration are never discarded.
C27_RollbackRestores ==
  RolledBack =>
    /\ tree = Started[Len(Started)].tree
    /\ \A k \in 1..Len(results) :
         results[k].success => \E j \in 1..Len(tree) : tree[j] = results[k].phase
    /\ Len(commits) >= Len(log[1].commits)
    /\ SubSeq(commits, 1, Len(log[1].commits)) = log[1].commits

\* ---- C28 ---------------------------------------------------------------
\* C28: orchestrator result.  executeFullMigration never throws, and the
\* returned result has success = true if and only if every phase of the
\* configured list was executed and returned success, also when a backup,
\* the rollback or the generation of the final report fails.
C28_ResultSuccess ==
  /\ opc = "done" => Finished
  /\ Finished =>
       (outcome[1].success <=>
          /\ Len(results) = Len(Phases(orchOptions))
          /\ AllSucceeded(results))

\* ---- C29 ---------------------------------------------------------------
\* C29: transformation status is never advanced.  Every record of every
\* file's transformations list has status pending, in every mode, and every
\* returned report has summary.appliedTransformations = 0 and
\* summary.failedTransformations = 0.
C29_StatusPending ==
  /\ \A i \in 1..Len(files) : \A k \in 1..Len(files[i].transformations) :
       files[i].transformations[k].status = "pending"
  /\ Returned =>
       /\ report[1].summary.appliedTransformations = 0
       /\ report[1].summary.failedTransformations = 0
       /\ \A i \in 1..Len(Details) : \A k \in 1..Len(Details[i].transformations) :
            Details[i].transformations[k].status = "pending"

\* a returned report that counts modified files
C29_Witness ==
  /\ Returned
  /\ report[1].summary.modifiedFiles > 0
  /\ report[1].summary.appliedTransformations = 0


\* ---- C30 ---------------------------------------------------------------
\* the calls of migrateProject, in order
Migrated == SelectSeq(batchLog, LAMBDA e : e.op = "migrateProject")

\* C30: batch isolation.  executeMigrations processes the selected projects
\* one at a time in list order, a failure of migrateProject for one project
\* never prevents the following projects from being processed, and the
\* result has exactly one entry per selected project with
\* successfulMigrations + failedMigrations = totalProjects = length of
\* results; the delay is applied only between two consecutive projects,
\* never after the last.
C30_BatchIsolation ==
  /\ Len(batchResults) <= Len(projects)
  /\ Len(Migrated) = Len(batchResults)
  /\ \A k \in 1..Len(Migrated) : Migrated[k].index = k - 1
  /\ \A k \in 1..Len(batchResults) : batchResults[k].project = projects[k]
  /\ \A k \in 1..Len(batchLog) :
       batchLog[k].op = "pause" =>
         /\ k > 1
         /\ batchLog[k - 1].op = "migrateProject"
         /\ batchLog[k].index + 1 < Len(projects)
         /\ k < Len(batchLog) =>
              /\ batchLog[k + 1].op = "migrateProject"
              /\ batchLog[k + 1].index = batchLog[k].index + 1
  /\ batch # <<>> =>
       /\ batch[1].results = batchResults
       /\ Len(batch[1].results) = Len(projects)
       /\ batch[1].totalProjects = Len(batch[1].results)
       /\ batch[1].successfulMigrations + batch[1].failedMigrations =
            batch[1].totalProjects
       /\ batchLog # <<>> => batchLog[Len(batchLog)].op = "migrateProject"

\* a batch of three returned: the first project failed, the others were
\* migrated, with a pause after the first and after the second only
C30_Witness ==
  /\ batch # <<>>
  /\ delay > 0
  /\ Len(projects) = 3
  /\ ~batch[1].results[1].success
  /\ batch[1].results[2].success
  /\ batch[1].results[3].success
  /\ batch[1].failedMigrations = 1
  /\ Len(batchLog) = 5

=============================================================================
